---- MODULE Spec2Model ----
(***************************************************************************)
(* File-backed hotel reservation system (src/6.2/hotel_system).            *)
(*                                                                         *)
(* State: the three persisted JSON documents (hotels, customers,           *)
(* reservations).  Every HotelSystem method is an operator from the        *)
(* documents and the arguments to the call's outcome (the exception or     *)
(* the returned value, and the documents it leaves), and one action that   *)
(* commits that outcome.                                                   *)
(***************************************************************************)
EXTENDS Integers, Sequences, FiniteSets, TLC

(***************************************************************************)
(* Bounds of the model.                                                    *)
(***************************************************************************)
MaxRooms == 2
MaxDay == 3
MaxReservations == 2

HotelIds == {"H1", "H2"}
CustomerIds == {"C1"}
SuppliedIds == {"R1"}
UuidPool == {"U1"}
Names == {"n1"}
Cities == {"k1"}
FullNames == {"f1"}
Emails == {"e1"}

Days == 1..MaxDay
RoomArgs == 0..MaxRooms

(* Optional arguments: <<>> is Python's None, <<v>> a supplied value. *)
None == <<>>
Some(v) == <<v>>
Opt(S) == {None} \cup {Some(v) : v \in S}

(* hotels_file, customers_file, reservations_file: the documents on disk. *)
(* blocked: history variable, the ids whose delete was rejected because   *)
(* of referencing reservations and that have not been deleted since.      *)
(* inflight: for each concurrent caller, the create_reservation call it   *)
(* is in: its position, its arguments and its local variables.            *)
VARIABLES hotels_file, customers_file, reservations_file, blocked, inflight

vars == <<hotels_file, customers_file, reservations_file, blocked, inflight>>

(* The callers of the interleaved calls, and a caller with no call yet. *)
Callers == {"a", "b"}
NoCall ==
    [pc |-> "idle", request |-> <<>>, hotels |-> <<>>, customers |-> <<>>,
     loaded |-> <<>>, pending |-> <<>>, exc |-> "None", msg |-> ""]

(***************************************************************************)
(* models.py                                                               *)
(***************************************************************************)
Hotel(hotel_id, name, city, total_rooms) ==
    [hotel_id |-> hotel_id, name |-> name, city |-> city, total_rooms |-> total_rooms]

Customer(customer_id, full_name, email) ==
    [customer_id |-> customer_id, full_name |-> full_name, email |-> email]

Reservation(reservation_id, hotel_id, customer_id, check_in, check_out, rooms) ==
    [reservation_id |-> reservation_id, hotel_id |-> hotel_id,
     customer_id |-> customer_id, check_in |-> check_in,
     check_out |-> check_out, rooms |-> rooms]

(* JSON values, as json.loads yields them and json.dumps writes them: a    *)
(* value carries its Python type in t.  JFloat(w) is the float w + 0.5,    *)
(* JInf a float beyond the double range (Infinity, 1e400), JList the       *)
(* empty list.                                                             *)
JStr(s) == [t |-> "str", s |-> s]
JInt(n) == [t |-> "int", n |-> n]
JFloat(w) == [t |-> "float", n |-> w]
JBool(b) == [t |-> "bool", b |-> b]
JNull == [t |-> "null"]
JInf == [t |-> "inf"]
JNaN == [t |-> "nan"]
JList == [t |-> "list"]
JDict(d) == [t |-> "dict", d |-> d]

(* Decimal text of the integers -9..99, and the integer of such a text. *)
Digit(n) == <<"0", "1", "2", "3", "4", "5", "6", "7", "8", "9">>[n + 1]
TwoDigits(n) == Digit(n \div 10) \o Digit(n % 10)
IntTexts ==
    [n \in -9..99 |-> IF n < 0 THEN "-" \o Digit(-n)
                      ELSE IF n < 10 THEN Digit(n)
                      ELSE TwoDigits(n)]
IntText(n) == IntTexts[n]
IntOfText ==
    [s \in {IntTexts[n] : n \in -9..99} |-> CHOOSE n \in -9..99 : IntTexts[n] = s]

(* str(v) of a JSON value. *)
str(v) ==
    IF v.t = "str" THEN v.s
    ELSE IF v.t = "int" THEN IntText(v.n)
    ELSE IF v.t = "float" THEN IntText(v.n) \o ".5"
    ELSE IF v.t = "bool" THEN (IF v.b THEN "True" ELSE "False")
    ELSE IF v.t = "null" THEN "None"
    ELSE IF v.t = "inf" THEN "inf"
    ELSE IF v.t = "nan" THEN "nan"
    ELSE IF v.t = "list" THEN "[]"
    ELSE "{}"

(* int(v) of a JSON value: the exception it raises ("None" when it         *)
(* returns) and the integer it returns; a float is truncated.              *)
int_error(v) ==
    IF v.t = "int" \/ v.t = "bool" \/ v.t = "float" THEN "None"
    ELSE IF v.t = "str"
    THEN (IF v.s \in DOMAIN IntOfText THEN "None" ELSE "ValueError")
    ELSE IF v.t = "nan" THEN "ValueError"
    ELSE IF v.t = "inf" THEN "OverflowError"
    ELSE "TypeError"

int(v) ==
    IF v.t = "int" \/ v.t = "float" THEN v.n
    ELSE IF v.t = "bool" THEN (IF v.b THEN 1 ELSE 0)
    ELSE IntOfText[v.s]

(* date.isoformat(): a date of the modelled month, March 2026, is its day *)
(* number d; IsoTexts[d] is its text YYYY-MM-DD.                           *)
IsoTexts == [d \in 1..31 |-> "2026-03-" \o TwoDigits(d)]
(* Variant of isoformat: the day is written without its leading zero. *)
isoformat_unpadded(d) == "2026-03-" \o IntText(d)

isoformat(d) == IsoTexts[d]

(* The texts date.fromisoformat() accepts, with their day: the extended    *)
(* format YYYY-MM-DD and the basic format YYYYMMDD.                        *)
DateOfText ==
    [s \in {IsoTexts[d] : d \in 1..31} \cup {"202603" \o TwoDigits(d) : d \in 1..31} |->
        CHOOSE d \in 1..31 : s \in {IsoTexts[d], "202603" \o TwoDigits(d)}]

(* date.fromisoformat() of a text: <<d>>, or <<>> when it raises           *)
(* ValueError.                                                             *)
fromisoformat(s) ==
    IF s \in DOMAIN DateOfText THEN Some(DateOfText[s]) ELSE None

Hotel_to_dict(h) ==
    [hotel_id |-> JStr(h.hotel_id), name |-> JStr(h.name), city |-> JStr(h.city),
     total_rooms |-> JInt(h.total_rooms)]

(* Outcome of a from_dict: the exception raised ("None" when it returns)   *)
(* and <<entity>>, <<>> when it raised.                                    *)
Decoded(entity) == [exc |-> "None", value |-> Some(entity)]
DecodeError(exc) == [exc |-> exc, value |-> None]

(* from_dict evaluates the keyword arguments of the constructor in order:  *)
(* data[key] raises KeyError, then the conversion of the value may raise;  *)
(* the first argument that raises decides the exception.                   *)
Hotel_decode(data, keys) ==
    IF "hotel_id" \notin keys THEN DecodeError("KeyError")
    ELSE IF "name" \notin keys THEN DecodeError("KeyError")
    ELSE IF "city" \notin keys THEN DecodeError("KeyError")
    ELSE IF "total_rooms" \notin keys THEN DecodeError("KeyError")
    ELSE IF int_error(data.total_rooms) # "None"
    THEN DecodeError(int_error(data.total_rooms))
    ELSE Decoded(Hotel(str(data.hotel_id), str(data.name), str(data.city),
                       int(data.total_rooms)))

Hotel_from_dict(data) == Hotel_decode(data, DOMAIN data)

Customer_to_dict(c) ==
    [customer_id |-> JStr(c.customer_id), full_name |-> JStr(c.full_name),
     email |-> JStr(c.email)]

Customer_decode(data, keys) ==
    IF "customer_id" \notin keys THEN DecodeError("KeyError")
    ELSE IF "full_name" \notin keys THEN DecodeError("KeyError")
    ELSE IF "email" \notin keys THEN DecodeError("KeyError")
    ELSE Decoded(Customer(str(data.customer_id), str(data.full_name),
                          str(data.email)))

Customer_from_dict(data) == Customer_decode(data, DOMAIN data)

Reservation_to_dict(r) ==
    [reservation_id |-> JStr(r.reservation_id), hotel_id |-> JStr(r.hotel_id),
     customer_id |-> JStr(r.customer_id), check_in |-> JStr(isoformat(r.check_in)),
     check_out |-> JStr(isoformat(r.check_out)), rooms |-> JInt(r.rooms)]

Reservation_decode(data, keys) ==
    IF "reservation_id" \notin keys THEN DecodeError("KeyError")
    ELSE IF "hotel_id" \notin keys THEN DecodeError("KeyError")
    ELSE IF "customer_id" \notin keys THEN DecodeError("KeyError")
    ELSE IF "check_in" \notin keys THEN DecodeError("KeyError")
    ELSE IF fromisoformat(str(data.check_in)) = None THEN DecodeError("ValueError")
    ELSE IF "check_out" \notin keys THEN DecodeError("KeyError")
    ELSE IF fromisoformat(str(data.check_out)) = None THEN DecodeError("ValueError")
    ELSE IF "rooms" \notin keys THEN DecodeError("KeyError")
    ELSE IF int_error(data.rooms) # "None" THEN DecodeError(int_error(data.rooms))
    ELSE Decoded(Reservation(str(data.reservation_id), str(data.hotel_id),
                             str(data.customer_id),
                             fromisoformat(str(data.check_in))[1],
                             fromisoformat(str(data.check_out))[1],
                             int(data.rooms)))

Reservation_from_dict(data) == Reservation_decode(data, DOMAIN data)

(***************************************************************************)
(* storage.py                                                              *)
(***************************************************************************)
(* A document on disk.  kind says what reading it gives: "missing" (the    *)
(* path does not exist), "unreadable" (read_text raises OSError),          *)
(* "not_utf8" (the bytes are not UTF-8 text), "invalid_json" (json.loads   *)
(* raises JSONDecodeError), "not_a_list" (a JSON value that is no list) or *)
(* "list", a JSON list of the values items.                                *)
MissingFile == [kind |-> "missing", items |-> <<>>]
ListFile(payload) == [kind |-> "list", items |-> payload]
BrokenFile(kind) == [kind |-> kind, items |-> <<>>]

(* The item_loader each collection is loaded with by HotelSystem. *)
item_loader(item_name, data) ==
    IF item_name = "hotel" THEN Hotel_from_dict(data)
    ELSE IF item_name = "customer" THEN Customer_from_dict(data)
    ELSE Reservation_from_dict(data)

(* item.to_dict() of whichever entity the item is. *)
to_dict(item) ==
    IF "reservation_id" \in DOMAIN item THEN Reservation_to_dict(item)
    ELSE IF "hotel_id" \in DOMAIN item THEN Hotel_to_dict(item)
    ELSE Customer_to_dict(item)

(* Outcome of a load_list or save_list: the exception that escapes it      *)
(* ("None" when it returns), the list returned, the lines printed, and     *)
(* for save_list the document it leaves.  A printed line is the index of   *)
(* the entry it names, or the name of the whole-document failure.          *)
Loaded(items, diagnostics) ==
    [exc |-> "None", items |-> items, diagnostics |-> diagnostics]
LoadRaised(exc, diagnostics) ==
    [exc |-> exc, items |-> <<>>, diagnostics |-> diagnostics]

(* Variant of load_entry: a decoded hotel without rooms and a decoded     *)
(* reservation whose check_out is not after its check_in are refused with  *)
(* ValueError.                                                             *)
load_entry_validating(entry, item_name) ==
    LET checked(item) ==
            IF item.exc # "None" THEN item
            ELSE IF item_name = "hotel" /\ item.value[1].total_rooms <= 0
            THEN DecodeError("ValueError")
            ELSE IF /\ item_name = "reservation"
                    /\ item.value[1].check_out <= item.value[1].check_in
            THEN DecodeError("ValueError")
            ELSE item
    IN IF entry.t # "dict" THEN DecodeError("NotADict")
       ELSE checked(item_loader(item_name, entry.d))

(* One entry of the list: "NotADict" when it is no dict, else the outcome  *)
(* of the item_loader on it.                                               *)
load_entry(entry, item_name) ==
    IF entry.t # "dict" THEN DecodeError("NotADict")
    ELSE item_loader(item_name, entry.d)

RECURSIVE LoadItems(_, _, _, _, _)
RECURSIVE LoadItem(_, _, _, _, _, _)
(* One turn of the loop of load_list, item being the outcome of the entry  *)
(* at index idx: an entry that is no dict, or whose item_loader raises     *)
(* KeyError, TypeError or ValueError, is printed and skipped; any other    *)
(* exception escapes.                                                      *)
LoadItem(data, item_name, idx, items, diagnostics, item) ==
    IF item.exc = "None"
    THEN LoadItems(data, item_name, idx + 1, Append(items, item.value[1]), diagnostics)
    ELSE IF item.exc \in {"NotADict", "KeyError", "TypeError", "ValueError"}
    THEN LoadItems(data, item_name, idx + 1, items, Append(diagnostics, IntText(idx)))
    ELSE LoadRaised(item.exc, diagnostics)

(* The loop of load_list over the entries from index idx on. *)
LoadItems(data, item_name, idx, items, diagnostics) ==
    IF idx >= Len(data) THEN Loaded(items, diagnostics)
    ELSE LoadItem(data, item_name, idx, items, diagnostics,
                  load_entry(data[idx + 1], item_name))

load_list(file, item_name) ==
    IF file.kind = "missing" THEN Loaded(<<>>, <<>>)
    ELSE IF file.kind = "unreadable" THEN Loaded(<<>>, <<"Cannot read">>)
    ELSE IF file.kind = "not_utf8" THEN LoadRaised("UnicodeDecodeError", <<>>)
    ELSE IF file.kind = "invalid_json" THEN Loaded(<<>>, <<"Invalid JSON">>)
    ELSE IF file.kind # "list" THEN Loaded(<<>>, <<"Expected a JSON list">>)
    ELSE LoadItems(file.items, item_name, 0, <<>>, <<>>)

(* What a write that raised OSError leaves of the document.  io is the   *)
(* outcome of the mkdir and the write_text of save_list: "written", or    *)
(* OSError raised before the file was opened ("refused": mkdir failed,    *)
(* or the open was denied), or OSError raised after write_text opened     *)
(* the file for writing, which empties it ("torn": the device is full,    *)
(* the size limit is reached).  A torn document holds a proper prefix of  *)
(* the payload, which is no well-formed JSON document.                    *)
after_failed_write(file, io) ==
    IF io = "torn" THEN BrokenFile("invalid_json") ELSE file

(* Variant of save_list: the payload is written in reverse order. *)
save_list_reversed(file, items, io) ==
    IF io = "written"
    THEN [exc |-> "None", diagnostics |-> <<>>,
          file |-> ListFile([i \in DOMAIN items |->
                                JDict(to_dict(items[Len(items) + 1 - i]))])]
    ELSE [exc |-> "None", diagnostics |-> <<"Cannot write">>,
          file |-> after_failed_write(file, io)]

(* Variant of save_list: the entries of the prior document that are no    *)
(* dicts are kept in front of the payload.                                 *)
save_list_keeping_non_dicts(file, items, io) ==
    IF io = "written"
    THEN [exc |-> "None", diagnostics |-> <<>>,
          file |-> ListFile((IF file.kind = "list"
                             THEN SelectSeq(file.items, LAMBDA e : e.t # "dict")
                             ELSE <<>>)
                            \o [i \in DOMAIN items |-> JDict(to_dict(items[i]))])]
    ELSE [exc |-> "None", diagnostics |-> <<"Cannot write">>,
          file |-> after_failed_write(file, io)]

(* The payload is built and written; an OSError is caught and printed,    *)
(* and save_list returns.                                                  *)
save_list(file, items, io) ==
    IF io = "written"
    THEN [exc |-> "None", diagnostics |-> <<>>,
          file |-> ListFile([i \in DOMAIN items |-> JDict(to_dict(items[i]))])]
    ELSE [exc |-> "None", diagnostics |-> <<"Cannot write">>,
          file |-> after_failed_write(file, io)]

(* Variant of index_by_id: the first item with an id is the one indexed. *)
index_by_id_first(items, id_field) ==
    [k \in {items[i][id_field] : i \in DOMAIN items} |->
        items[CHOOSE i \in DOMAIN items :
                /\ items[i][id_field] = k
                /\ \A j \in DOMAIN items : items[j][id_field] = k => i <= j]]

(* get_id reads the field id_field; a later item replaces an earlier one  *)
(* with the same id.                                                      *)
index_by_id(items, id_field) ==
    [k \in {items[i][id_field] : i \in DOMAIN items} |->
        items[CHOOSE i \in DOMAIN items :
                /\ items[i][id_field] = k
                /\ \A j \in DOMAIN items : items[j][id_field] = k => j <= i]]

(***************************************************************************)
(* services.py: helpers                                                    *)
(***************************************************************************)
(* The three documents a HotelSystem instance works on. *)
Disk == [hotels |-> hotels_file, customers |-> customers_file,
         reservations |-> reservations_file]

load_hotels(disk) == load_list(disk.hotels, "hotel")
load_customers(disk) == load_list(disk.customers, "customer")
load_reservations(disk) == load_list(disk.reservations, "reservation")

save_hotels(disk, hs, io) ==
    [disk EXCEPT !.hotels = save_list(disk.hotels, hs, io).file]
save_customers(disk, cs, io) ==
    [disk EXCEPT !.customers = save_list(disk.customers, cs, io).file]
save_reservations(disk, rs, io) ==
    [disk EXCEPT !.reservations = save_list(disk.reservations, rs, io).file]

(* Outcome of a call: the exception raised ("None" when it returns), its  *)
(* message, the returned value (<<>> for a None return) and the documents *)
(* the call leaves on disk.                                                *)
Returned(value, disk) == [exc |-> "None", msg |-> "", ret |-> value, disk |-> disk]
Raised(exc, msg, disk) == [exc |-> exc, msg |-> msg, ret |-> None, disk |-> disk]

(***************************************************************************)
(* services.py: hotel behaviours                                           *)
(* In each method, run is its body after the loads, applied to what the    *)
(* loads give; an exception that escapes a load escapes the method.        *)
(***************************************************************************)
(* Variant of create_hotel: total_rooms is not validated. *)
create_hotel_unvalidated(disk, hotel, io) ==
    LET run(loaded_hotels) ==
            IF loaded_hotels.exc # "None"
            THEN Raised(loaded_hotels.exc, "", disk)
            ELSE IF hotel.hotel_id \in DOMAIN index_by_id(loaded_hotels.items, "hotel_id")
            THEN Raised("ValidationError", "Hotel already exists", disk)
            ELSE Returned(None,
                     save_hotels(disk, Append(loaded_hotels.items, hotel), io))
    IN run(load_hotels(disk))

create_hotel(disk, hotel, io) ==
    LET run(loaded_hotels) ==
            IF loaded_hotels.exc # "None"
            THEN Raised(loaded_hotels.exc, "", disk)
            ELSE IF hotel.hotel_id \in DOMAIN index_by_id(loaded_hotels.items, "hotel_id")
            THEN Raised("ValidationError", "Hotel already exists", disk)
            ELSE IF hotel.total_rooms <= 0
            THEN Raised("ValidationError", "total_rooms must be > 0", disk)
            ELSE Returned(None,
                     save_hotels(disk, Append(loaded_hotels.items, hotel), io))
    IN run(load_hotels(disk))

(* Variant of delete_hotel: the references are checked before the hotel   *)
(* is looked up.                                                           *)
delete_hotel_references_first(disk, hotel_id, io) ==
    LET run(loaded_hotels, loaded_reservations) ==
            IF loaded_hotels.exc # "None"
            THEN Raised(loaded_hotels.exc, "", disk)
            ELSE IF loaded_reservations.exc # "None"
            THEN Raised(loaded_reservations.exc, "", disk)
            ELSE IF \E i \in DOMAIN loaded_reservations.items :
                       loaded_reservations.items[i].hotel_id = hotel_id
            THEN Raised("ValidationError",
                        "Cannot delete hotel with active reservations", disk)
            ELSE IF ~(\E i \in DOMAIN loaded_hotels.items :
                         loaded_hotels.items[i].hotel_id = hotel_id)
            THEN Raised("NotFoundError", "Hotel not found", disk)
            ELSE Returned(None,
                     save_hotels(disk,
                         SelectSeq(loaded_hotels.items, LAMBDA h : h.hotel_id # hotel_id),
                         io))
    IN run(load_hotels(disk), load_reservations(disk))

(* Variant of delete_hotel: the reservations are not consulted. *)
delete_hotel_unchecked(disk, hotel_id, io) ==
    LET run(loaded_hotels) ==
            IF loaded_hotels.exc # "None"
            THEN Raised(loaded_hotels.exc, "", disk)
            ELSE IF ~(\E i \in DOMAIN loaded_hotels.items :
                         loaded_hotels.items[i].hotel_id = hotel_id)
            THEN Raised("NotFoundError", "Hotel not found", disk)
            ELSE Returned(None,
                     save_hotels(disk,
                         SelectSeq(loaded_hotels.items, LAMBDA h : h.hotel_id # hotel_id),
                         io))
    IN run(load_hotels(disk))

(* Variant of delete_hotel: the filter keeps the target and drops the rest. *)
delete_hotel_keeps_target(disk, hotel_id, io) ==
    LET run(loaded_hotels, loaded_reservations) ==
            IF loaded_hotels.exc # "None"
            THEN Raised(loaded_hotels.exc, "", disk)
            ELSE IF ~(\E i \in DOMAIN loaded_hotels.items :
                         loaded_hotels.items[i].hotel_id = hotel_id)
            THEN Raised("NotFoundError", "Hotel not found", disk)
            ELSE IF loaded_reservations.exc # "None"
            THEN Raised(loaded_reservations.exc, "", disk)
            ELSE IF \E i \in DOMAIN loaded_reservations.items :
                       loaded_reservations.items[i].hotel_id = hotel_id
            THEN Raised("ValidationError",
                        "Cannot delete hotel with active reservations", disk)
            ELSE Returned(None,
                     save_hotels(disk,
                         SelectSeq(loaded_hotels.items, LAMBDA h : h.hotel_id = hotel_id),
                         io))
    IN run(load_hotels(disk), load_reservations(disk))

(* Variant of delete_hotel: the reservations it loaded are saved back. *)
delete_hotel_rewrites_reservations(disk, hotel_id, io) ==
    LET run(loaded_hotels, loaded_reservations) ==
            IF loaded_hotels.exc # "None"
            THEN Raised(loaded_hotels.exc, "", disk)
            ELSE IF ~(\E i \in DOMAIN loaded_hotels.items :
                         loaded_hotels.items[i].hotel_id = hotel_id)
            THEN Raised("NotFoundError", "Hotel not found", disk)
            ELSE IF loaded_reservations.exc # "None"
            THEN Raised(loaded_reservations.exc, "", disk)
            ELSE IF \E i \in DOMAIN loaded_reservations.items :
                       loaded_reservations.items[i].hotel_id = hotel_id
            THEN Raised("ValidationError",
                        "Cannot delete hotel with active reservations", disk)
            ELSE Returned(None,
                     save_reservations(
                         save_hotels(disk,
                             SelectSeq(loaded_hotels.items,
                                       LAMBDA h : h.hotel_id # hotel_id),
                             io),
                         loaded_reservations.items, io))
    IN run(load_hotels(disk), load_reservations(disk))

delete_hotel(disk, hotel_id, io) ==
    LET run(loaded_hotels, loaded_reservations) ==
            IF loaded_hotels.exc # "None"
            THEN Raised(loaded_hotels.exc, "", disk)
            ELSE IF ~(\E i \in DOMAIN loaded_hotels.items :
                         loaded_hotels.items[i].hotel_id = hotel_id)
            THEN Raised("NotFoundError", "Hotel not found", disk)
            ELSE IF loaded_reservations.exc # "None"
            THEN Raised(loaded_reservations.exc, "", disk)
            ELSE IF \E i \in DOMAIN loaded_reservations.items :
                       loaded_reservations.items[i].hotel_id = hotel_id
            THEN Raised("ValidationError",
                        "Cannot delete hotel with active reservations", disk)
            ELSE Returned(None,
                     save_hotels(disk,
                         SelectSeq(loaded_hotels.items, LAMBDA h : h.hotel_id # hotel_id),
                         io))
    IN run(load_hotels(disk), load_reservations(disk))

(* The first item whose field id_field is id, <<>> when there is none. *)
first_with_id(items, id_field, id) ==
    IF \A i \in DOMAIN items : items[i][id_field] # id THEN None
    ELSE Some(items[CHOOSE i \in DOMAIN items :
                       /\ items[i][id_field] = id
                       /\ \A j \in 1..(i - 1) : items[j][id_field] # id])

display_hotel(disk, hotel_id) ==
    LET run(loaded_hotels, hotel) ==
            IF loaded_hotels.exc # "None"
            THEN Raised(loaded_hotels.exc, "", disk)
            ELSE IF hotel = None THEN Raised("NotFoundError", "Hotel not found", disk)
            ELSE Returned(hotel, disk)
    IN run(load_hotels(disk), first_with_id(load_hotels(disk).items, "hotel_id", hotel_id))

(* The hotel modify_hotel writes in place of hotel. *)
(* Variant of updated_hotel: the supplied name lands in city and the      *)
(* supplied city in name.                                                  *)
updated_hotel_swapped(hotel, name, city, total_rooms) ==
    Hotel(hotel.hotel_id,
          IF city = None THEN hotel.name ELSE city[1],
          IF name = None THEN hotel.city ELSE name[1],
          IF total_rooms = None THEN hotel.total_rooms ELSE total_rooms[1])

updated_hotel(hotel, name, city, total_rooms) ==
    Hotel(hotel.hotel_id,
          IF name = None THEN hotel.name ELSE name[1],
          IF city = None THEN hotel.city ELSE city[1],
          IF total_rooms = None THEN hotel.total_rooms ELSE total_rooms[1])

(* Variant of modify_hotel: a supplied total_rooms is validated before    *)
(* the hotel is looked up.                                                 *)
modify_hotel_validates_first(disk, hotel_id, name, city, total_rooms, io) ==
    LET run(loaded_hotels, updated) ==
            IF loaded_hotels.exc # "None"
            THEN Raised(loaded_hotels.exc, "", disk)
            ELSE IF total_rooms # None /\ total_rooms[1] <= 0
            THEN Raised("ValidationError", "total_rooms must be > 0", disk)
            ELSE IF \A i \in DOMAIN updated : updated[i].hotel_id # hotel_id
            THEN Raised("NotFoundError", "Hotel not found", disk)
            ELSE display_hotel(save_hotels(disk, updated, io), hotel_id)
        rewrite(hotels) ==
            [i \in DOMAIN hotels |->
                IF hotels[i].hotel_id = hotel_id
                THEN updated_hotel(hotels[i], name, city, total_rooms)
                ELSE hotels[i]]
    IN run(load_hotels(disk), rewrite(load_hotels(disk).items))

modify_hotel(disk, hotel_id, name, city, total_rooms, io) ==
    LET run(loaded_hotels, updated) ==
            IF loaded_hotels.exc # "None"
            THEN Raised(loaded_hotels.exc, "", disk)
            ELSE IF \E i \in DOMAIN updated :
                       updated[i].hotel_id = hotel_id /\ updated[i].total_rooms <= 0
            THEN Raised("ValidationError", "total_rooms must be > 0", disk)
            ELSE IF \A i \in DOMAIN updated : updated[i].hotel_id # hotel_id
            THEN Raised("NotFoundError", "Hotel not found", disk)
            ELSE display_hotel(save_hotels(disk, updated, io), hotel_id)
        rewrite(hotels) ==
            [i \in DOMAIN hotels |->
                IF hotels[i].hotel_id = hotel_id
                THEN updated_hotel(hotels[i], name, city, total_rooms)
                ELSE hotels[i]]
    IN run(load_hotels(disk), rewrite(load_hotels(disk).items))

(***************************************************************************)
(* services.py: customer behaviours                                        *)
(***************************************************************************)
create_customer(disk, customer, io) ==
    LET run(loaded_customers) ==
            IF loaded_customers.exc # "None"
            THEN Raised(loaded_customers.exc, "", disk)
            ELSE IF customer.customer_id
                       \in DOMAIN index_by_id(loaded_customers.items, "customer_id")
            THEN Raised("ValidationError", "Customer already exists", disk)
            ELSE Returned(None,
                     save_customers(disk, Append(loaded_customers.items, customer),
                                    io))
    IN run(load_customers(disk))

(* Variant of delete_customer: the reservations are not consulted. *)
delete_customer_unchecked(disk, customer_id, io) ==
    LET run(loaded_customers) ==
            IF loaded_customers.exc # "None"
            THEN Raised(loaded_customers.exc, "", disk)
            ELSE IF ~(\E i \in DOMAIN loaded_customers.items :
                         loaded_customers.items[i].customer_id = customer_id)
            THEN Raised("NotFoundError", "Customer not found", disk)
            ELSE Returned(None,
                     save_customers(disk,
                         SelectSeq(loaded_customers.items,
                                   LAMBDA c : c.customer_id # customer_id),
                         io))
    IN run(load_customers(disk))

delete_customer(disk, customer_id, io) ==
    LET run(loaded_customers, loaded_reservations) ==
            IF loaded_customers.exc # "None"
            THEN Raised(loaded_customers.exc, "", disk)
            ELSE IF ~(\E i \in DOMAIN loaded_customers.items :
                         loaded_customers.items[i].customer_id = customer_id)
            THEN Raised("NotFoundError", "Customer not found", disk)
            ELSE IF loaded_reservations.exc # "None"
            THEN Raised(loaded_reservations.exc, "", disk)
            ELSE IF \E i \in DOMAIN loaded_reservations.items :
                       loaded_reservations.items[i].customer_id = customer_id
            THEN Raised("ValidationError",
                        "Cannot delete customer with active reservations", disk)
            ELSE Returned(None,
                     save_customers(disk,
                         SelectSeq(loaded_customers.items,
                                   LAMBDA c : c.customer_id # customer_id),
                         io))
    IN run(load_customers(disk), load_reservations(disk))

display_customer(disk, customer_id) ==
    LET run(loaded_customers, customer) ==
            IF loaded_customers.exc # "None"
            THEN Raised(loaded_customers.exc, "", disk)
            ELSE IF customer = None
            THEN Raised("NotFoundError", "Customer not found", disk)
            ELSE Returned(customer, disk)
    IN run(load_customers(disk),
           first_with_id(load_customers(disk).items, "customer_id", customer_id))

updated_customer(customer, full_name, email) ==
    Customer(customer.customer_id,
             IF full_name = None THEN customer.full_name ELSE full_name[1],
             IF email = None THEN customer.email ELSE email[1])

modify_customer(disk, customer_id, full_name, email, io) ==
    LET run(loaded_customers, updated) ==
            IF loaded_customers.exc # "None"
            THEN Raised(loaded_customers.exc, "", disk)
            ELSE IF \A i \in DOMAIN updated : updated[i].customer_id # customer_id
            THEN Raised("NotFoundError", "Customer not found", disk)
            ELSE display_customer(save_customers(disk, updated, io), customer_id)
        rewrite(customers) ==
            [i \in DOMAIN customers |->
                IF customers[i].customer_id = customer_id
                THEN updated_customer(customers[i], full_name, email)
                ELSE customers[i]]
    IN run(load_customers(disk), rewrite(load_customers(disk).items))

(***************************************************************************)
(* services.py: reservation behaviours                                     *)
(***************************************************************************)
(* Variant of overlaps: closed intervals, adjacency counts as overlap. *)
overlaps_inclusive(check_in, check_out, r) ==
    ~(check_out < r.check_in \/ check_in > r.check_out)

(* Variant of overlaps: a reservation counts when the requested check_in  *)
(* falls inside it.                                                        *)
overlaps_start_inside(check_in, check_out, r) ==
    r.check_in <= check_in /\ check_in < r.check_out

(* The overlap test of create_reservation against an existing r. *)
overlaps(check_in, check_out, r) ==
    ~(check_out <= r.check_in \/ check_in >= r.check_out)

RECURSIVE reserved_rooms_counts_reservations(_, _, _, _)
(* Variant of reserved_rooms: counts the overlapping reservations, not    *)
(* their rooms.                                                           *)
reserved_rooms_counts_reservations(reservations, hotel_id, check_in, check_out) ==
    IF reservations = <<>> THEN 0
    ELSE (IF /\ Head(reservations).hotel_id = hotel_id
             /\ overlaps(check_in, check_out, Head(reservations))
          THEN 1 ELSE 0)
         + reserved_rooms_counts_reservations(Tail(reservations), hotel_id,
                                              check_in, check_out)

RECURSIVE reserved_rooms_any_hotel(_, _, _, _)
(* Variant of reserved_rooms: the hotel_id filter is dropped. *)
reserved_rooms_any_hotel(reservations, hotel_id, check_in, check_out) ==
    IF reservations = <<>> THEN 0
    ELSE (IF overlaps(check_in, check_out, Head(reservations))
          THEN Head(reservations).rooms ELSE 0)
         + reserved_rooms_any_hotel(Tail(reservations), hotel_id, check_in, check_out)

RECURSIVE reserved_rooms(_, _, _, _)
(* sum(r.rooms for r in reservations if r.hotel_id == hotel_id and overlap) *)
reserved_rooms(reservations, hotel_id, check_in, check_out) ==
    IF reservations = <<>> THEN 0
    ELSE (IF /\ Head(reservations).hotel_id = hotel_id
             /\ overlaps(check_in, check_out, Head(reservations))
          THEN Head(reservations).rooms ELSE 0)
         + reserved_rooms(Tail(reservations), hotel_id, check_in, check_out)

(* Variant of book: the requested rooms are compared with total_rooms,    *)
(* whatever is reserved already.                                           *)
book_ignores_reserved(disk, hotel, reservations, new_reservation, io) ==
    IF new_reservation.rooms > hotel.total_rooms
    THEN Raised("ValidationError", "Not enough rooms available", disk)
    ELSE Returned(Some(new_reservation),
             save_reservations(disk, Append(reservations, new_reservation), io))

(* Variant of book: a request with the hotel, customer and dates of a     *)
(* loaded reservation adds its rooms to that reservation instead of being *)
(* appended.                                                               *)
book_merging(disk, hotel, reservations, new_reservation, io) ==
    LET same(i) == /\ reservations[i].hotel_id = new_reservation.hotel_id
                   /\ reservations[i].customer_id = new_reservation.customer_id
                   /\ reservations[i].check_in = new_reservation.check_in
                   /\ reservations[i].check_out = new_reservation.check_out
        merged(i) == [reservations EXCEPT ![i].rooms = @ + new_reservation.rooms]
    IN IF new_reservation.rooms
             > hotel.total_rooms - reserved_rooms(reservations, hotel.hotel_id,
                                                  new_reservation.check_in,
                                                  new_reservation.check_out)
       THEN Raised("ValidationError", "Not enough rooms available", disk)
       ELSE IF \E i \in DOMAIN reservations : same(i)
       THEN Returned(Some(new_reservation),
                save_reservations(disk,
                    merged(CHOOSE i \in DOMAIN reservations : same(i)), io))
       ELSE Returned(Some(new_reservation),
                save_reservations(disk, Append(reservations, new_reservation), io))

(* The end of create_reservation, from the availability check on: hotel   *)
(* is the resolved hotel, reservations the loaded list.                    *)
book(disk, hotel, reservations, new_reservation, io) ==
    IF new_reservation.rooms
          > hotel.total_rooms - reserved_rooms(reservations, hotel.hotel_id,
                                               new_reservation.check_in,
                                               new_reservation.check_out)
    THEN Raised("ValidationError", "Not enough rooms available", disk)
    ELSE Returned(Some(new_reservation),
             save_reservations(disk, Append(reservations, new_reservation), io))

(* Variant of resolve: the hotel and the customer are looked up in the    *)
(* documents as they are when the reservation is booked, not in the lists *)
(* loaded at the start of the call.                                        *)
resolve_on_disk(disk, loaded_hotels, loaded_customers, loaded_reservations, hotel_id, customer_id, new_reservation, io) ==
    LET found(hotels_by_id, customers_by_id) ==
            IF hotel_id \notin DOMAIN hotels_by_id
            THEN Raised("NotFoundError", "Hotel not found", disk)
            ELSE IF customer_id \notin DOMAIN customers_by_id
            THEN Raised("NotFoundError", "Customer not found", disk)
            ELSE book(disk, hotels_by_id[hotel_id], loaded_reservations.items,
                      new_reservation, io)
    IN IF loaded_reservations.exc # "None"
       THEN Raised(loaded_reservations.exc, "", disk)
       ELSE found(index_by_id(load_hotels(disk).items, "hotel_id"),
                  index_by_id(load_customers(disk).items, "customer_id"))

(* The middle of create_reservation: the three loads are indexed and the   *)
(* hotel and the customer resolved, then the reservation is booked.        *)
resolve(disk, loaded_hotels, loaded_customers, loaded_reservations, hotel_id, customer_id, new_reservation, io) ==
    LET found(hotels_by_id, customers_by_id) ==
            IF hotel_id \notin DOMAIN hotels_by_id
            THEN Raised("NotFoundError", "Hotel not found", disk)
            ELSE IF customer_id \notin DOMAIN customers_by_id
            THEN Raised("NotFoundError", "Customer not found", disk)
            ELSE book(disk, hotels_by_id[hotel_id], loaded_reservations.items,
                      new_reservation, io)
    IN IF loaded_hotels.exc # "None"
       THEN Raised(loaded_hotels.exc, "", disk)
       ELSE IF loaded_customers.exc # "None"
       THEN Raised(loaded_customers.exc, "", disk)
       ELSE IF loaded_reservations.exc # "None"
       THEN Raised(loaded_reservations.exc, "", disk)
       ELSE found(index_by_id(loaded_hotels.items, "hotel_id"),
                  index_by_id(loaded_customers.items, "customer_id"))

(* falsy(reservation_id): the values `reservation_id or uuid4()` replaces   *)
(* by the token, None and the empty string.                               *)
falsy(reservation_id) == reservation_id = None \/ reservation_id[1] = ""

(* str(reservation_id or uuid4()), uuid being the token uuid4() yields. *)
assigned_id(reservation_id, uuid) ==
    IF falsy(reservation_id) THEN uuid ELSE reservation_id[1]

(* Variant of create_reservation: check_out equal to check_in passes. *)
create_reservation_equal_dates(disk, hotel_id, customer_id, check_in, check_out, rooms, reservation_id, uuid, io) ==
    IF rooms <= 0
    THEN Raised("ValidationError", "rooms must be > 0", disk)
    ELSE IF check_out < check_in
    THEN Raised("ValidationError", "check_out must be after check_in", disk)
    ELSE resolve(disk, load_hotels(disk), load_customers(disk), load_reservations(disk),
                 hotel_id, customer_id,
                 Reservation(assigned_id(reservation_id, uuid),
                             hotel_id, customer_id, check_in, check_out, rooms),
                 io)

(* Variant of create_reservation: the hotel and the customer are resolved *)
(* before the arguments are validated.                                    *)
create_reservation_resolve_first(disk, hotel_id, customer_id, check_in, check_out, rooms, reservation_id, uuid, io) ==
    LET validate(resolved) ==
            IF resolved.exc = "NotFoundError" THEN resolved
            ELSE IF rooms <= 0
            THEN Raised("ValidationError", "rooms must be > 0", disk)
            ELSE IF check_out <= check_in
            THEN Raised("ValidationError", "check_out must be after check_in", disk)
            ELSE resolved
    IN validate(resolve(disk, load_hotels(disk), load_customers(disk),
                        load_reservations(disk), hotel_id, customer_id,
                        Reservation(assigned_id(reservation_id, uuid),
                                    hotel_id, customer_id, check_in, check_out, rooms),
                        io))

(* uuid is the token uuid4() yields in this call; it is used only when    *)
(* reservation_id is falsy.                                                *)
create_reservation(disk, hotel_id, customer_id, check_in, check_out, rooms, reservation_id, uuid, io) ==
    IF rooms <= 0
    THEN Raised("ValidationError", "rooms must be > 0", disk)
    ELSE IF check_out <= check_in
    THEN Raised("ValidationError", "check_out must be after check_in", disk)
    ELSE resolve(disk, load_hotels(disk), load_customers(disk), load_reservations(disk),
                 hotel_id, customer_id,
                 Reservation(assigned_id(reservation_id, uuid),
                             hotel_id, customer_id, check_in, check_out, rooms),
                 io)

(* Variant of cancel_reservation: every reservation is dropped, not only  *)
(* the cancelled one.                                                      *)
cancel_reservation_clears(disk, reservation_id, io) ==
    LET run(loaded_reservations) ==
            IF loaded_reservations.exc # "None"
            THEN Raised(loaded_reservations.exc, "", disk)
            ELSE IF ~(\E i \in DOMAIN loaded_reservations.items :
                         loaded_reservations.items[i].reservation_id = reservation_id)
            THEN Raised("NotFoundError", "Reservation not found", disk)
            ELSE Returned(None, save_reservations(disk, <<>>, io))
    IN run(load_reservations(disk))

cancel_reservation(disk, reservation_id, io) ==
    LET run(loaded_reservations) ==
            IF loaded_reservations.exc # "None"
            THEN Raised(loaded_reservations.exc, "", disk)
            ELSE IF ~(\E i \in DOMAIN loaded_reservations.items :
                         loaded_reservations.items[i].reservation_id = reservation_id)
            THEN Raised("NotFoundError", "Reservation not found", disk)
            ELSE Returned(None,
                     save_reservations(disk,
                         SelectSeq(loaded_reservations.items,
                                   LAMBDA r : r.reservation_id # reservation_id),
                         io))
    IN run(load_reservations(disk))

(* reserve_room: create_reservation with rooms defaulting to 1 at the     *)
(* caller and no reservation_id.                                           *)
reserve_room(disk, hotel_id, customer_id, check_in, check_out, rooms, uuid, io) ==
    create_reservation(disk, hotel_id, customer_id, check_in, check_out, rooms,
                       None, uuid, io)

(* The outcome o with None for its returned value. *)
discard_result(o) == [o EXCEPT !.ret = None]

cancel_reservation_for_hotel(disk, reservation_id, io) ==
    discard_result(cancel_reservation(disk, reservation_id, io))

(***************************************************************************)
(* The callers' inputs.                                                    *)
(***************************************************************************)
HotelArgs == {Hotel(i, n, c, t) : i \in HotelIds, n \in Names, c \in Cities,
                                  t \in RoomArgs}
CustomerArgs == {Customer(i, f, e) : i \in CustomerIds, f \in FullNames, e \in Emails}
ReservationIds == SuppliedIds \cup UuidPool
(* The <<check_in, check_out>> of the calls: every range of Days, one pair *)
(* of equal dates and one reversed pair.                                   *)
DateArgs == {d \in Days \X Days : d[1] < d[2]} \cup {<<1, 1>>, <<2, 1>>}

(* What uuid4() can yield in a call: a token no persisted reservation     *)
(* carries.  It is not called when the reservation_id is not falsy.       *)
UuidDraw(disk, reservation_id) ==
    LET reservations == load_reservations(disk).items
    IN IF ~falsy(reservation_id) THEN {"unused"}
       ELSE UuidPool \ {reservations[i].reservation_id : i \in DOMAIN reservations}

(***************************************************************************)
(* One action per HotelSystem method: the call's outcome is committed to   *)
(* the disk.  A call that raises leaves the documents as they were.        *)
(* With track, the deletes record their rejections in blocked: a delete    *)
(* that raises ValidationError enters its target, one that returns takes   *)
(* it out.                                                                 *)
(***************************************************************************)
Commit(o) ==
    /\ hotels_file' = o.disk.hotels
    /\ customers_file' = o.disk.customers
    /\ reservations_file' = o.disk.reservations
    /\ UNCHANGED inflight

TrackDelete(o, id, track) ==
    blocked' = IF ~track THEN blocked
               ELSE IF o.exc = "None" THEN blocked \ {id}
               ELSE IF o.exc = "ValidationError" THEN blocked \cup {id}
               ELSE blocked

CommitDelete(o, id, track) == Commit(o) /\ TrackDelete(o, id, track)

(* The length guard caps the reservations document of the model. *)
CommitBounded(o) ==
    /\ Len(o.disk.reservations.items) <= MaxReservations
    /\ Commit(o)

CreateHotel(hotel, io) ==
    Commit(create_hotel(Disk, hotel, io)) /\ UNCHANGED blocked

DeleteHotel(hotel_id, io, track) ==
    CommitDelete(delete_hotel(Disk, hotel_id, io), hotel_id, track)

DisplayHotel(hotel_id) ==
    Commit(display_hotel(Disk, hotel_id)) /\ UNCHANGED blocked

ModifyHotel(hotel_id, name, city, total_rooms, io) ==
    Commit(modify_hotel(Disk, hotel_id, name, city, total_rooms, io))
    /\ UNCHANGED blocked

CreateCustomer(customer, io) ==
    Commit(create_customer(Disk, customer, io)) /\ UNCHANGED blocked

DeleteCustomer(customer_id, io, track) ==
    CommitDelete(delete_customer(Disk, customer_id, io), customer_id, track)

DisplayCustomer(customer_id) ==
    Commit(display_customer(Disk, customer_id)) /\ UNCHANGED blocked

ModifyCustomer(customer_id, full_name, email, io) ==
    Commit(modify_customer(Disk, customer_id, full_name, email, io))
    /\ UNCHANGED blocked

CreateReservation(hotel_id, customer_id, check_in, check_out, rooms, reservation_id, uuid, io) ==
    /\ CommitBounded(create_reservation(Disk, hotel_id, customer_id, check_in,
                                        check_out, rooms, reservation_id, uuid, io))
    /\ UNCHANGED blocked

CancelReservation(reservation_id, io) ==
    Commit(cancel_reservation(Disk, reservation_id, io)) /\ UNCHANGED blocked

ReserveRoom(hotel_id, customer_id, check_in, check_out, rooms, uuid, io) ==
    /\ CommitBounded(reserve_room(Disk, hotel_id, customer_id, check_in, check_out,
                                  rooms, uuid, io))
    /\ UNCHANGED blocked

CancelReservationForHotel(reservation_id, io) ==
    Commit(cancel_reservation_for_hotel(Disk, reservation_id, io))
    /\ UNCHANGED blocked

Init ==
    /\ hotels_file = MissingFile
    /\ customers_file = MissingFile
    /\ reservations_file = MissingFile
    /\ blocked = {}
    /\ inflight = [caller \in Callers |-> NoCall]

(* One call of HotelSystem, by a single caller, on a disk whose writes    *)
(* have the outcomes IO.                                                   *)
Call(IO, track) ==
    \E io \in IO :
       \/ \E hotel \in HotelArgs : CreateHotel(hotel, io)
       \/ \E hotel_id \in HotelIds : DeleteHotel(hotel_id, io, track)
       \/ \E hotel_id \in HotelIds : DisplayHotel(hotel_id)
       \/ \E hotel_id \in HotelIds, name \in Opt(Names), city \in Opt(Cities),
             total_rooms \in Opt(RoomArgs) :
             ModifyHotel(hotel_id, name, city, total_rooms, io)
       \/ \E customer \in CustomerArgs : CreateCustomer(customer, io)
       \/ \E customer_id \in CustomerIds : DeleteCustomer(customer_id, io, track)
       \/ \E customer_id \in CustomerIds : DisplayCustomer(customer_id)
       \/ \E customer_id \in CustomerIds, full_name \in Opt(FullNames),
             email \in Opt(Emails) :
             ModifyCustomer(customer_id, full_name, email, io)
       \/ \E hotel_id \in HotelIds, customer_id \in CustomerIds, dates \in DateArgs,
             rooms \in RoomArgs, reservation_id \in Opt(SuppliedIds) :
             \E uuid \in UuidDraw(Disk, reservation_id) :
                CreateReservation(hotel_id, customer_id, dates[1], dates[2], rooms,
                                  reservation_id, uuid, io)
       \/ \E reservation_id \in ReservationIds : CancelReservation(reservation_id, io)
       \/ \E hotel_id \in HotelIds, customer_id \in CustomerIds, dates \in DateArgs,
             rooms \in RoomArgs, uuid \in UuidDraw(Disk, None) :
             ReserveRoom(hotel_id, customer_id, dates[1], dates[2], rooms, uuid, io)
       \/ \E reservation_id \in ReservationIds :
             CancelReservationForHotel(reservation_id, io)

(* Any sequence of calls; every write reaches the disk. *)
Next == Call({"written"}, FALSE)

Spec == Init /\ [][Next]_vars

(* The same calls, with the history of rejected deletes recorded. *)
NextTracked == Call({"written"}, TRUE)

SpecTracked == Init /\ [][NextTracked]_vars

(* The same calls on a disk whose writes may fail with OSError before    *)
(* the file is opened.                                                     *)
NextIO == Call({"written", "refused"}, FALSE)

SpecIO == Init /\ [][NextIO]_vars

(***************************************************************************)
(* The hotel and customer calls with two values for every field a modify   *)
(* can set: entities are created with the first value of each field, so a  *)
(* second value in a document was put there by a modify.                   *)
(***************************************************************************)
ModifyNames == Names \cup {"n2"}
ModifyCities == Cities \cup {"k2"}
ModifyFullNames == FullNames \cup {"f2"}
ModifyEmails == Emails \cup {"e2"}

NextModify ==
    \/ \E hotel \in HotelArgs : CreateHotel(hotel, "written")
    \/ \E hotel_id \in HotelIds : DeleteHotel(hotel_id, "written", FALSE)
    \/ \E hotel_id \in HotelIds : DisplayHotel(hotel_id)
    \/ \E hotel_id \in HotelIds, name \in Opt(ModifyNames), city \in Opt(ModifyCities),
          total_rooms \in Opt(RoomArgs) :
          ModifyHotel(hotel_id, name, city, total_rooms, "written")
    \/ \E customer \in CustomerArgs : CreateCustomer(customer, "written")
    \/ \E customer_id \in CustomerIds : DeleteCustomer(customer_id, "written", FALSE)
    \/ \E customer_id \in CustomerIds : DisplayCustomer(customer_id)
    \/ \E customer_id \in CustomerIds, full_name \in Opt(ModifyFullNames),
          email \in Opt(ModifyEmails) :
          ModifyCustomer(customer_id, full_name, email, "written")

SpecModify == Init /\ [][NextModify]_vars

(***************************************************************************)
(* The calls on documents that were not written by save_list: the files    *)
(* start as any of a set of documents (hand-edited, truncated or foreign   *)
(* files), with entries that decode, entries that decode after a           *)
(* conversion, and entries that do not decode.                             *)
(***************************************************************************)
(* The dict d without the key, and with the value v under the key. *)
without(d, key) == [k \in DOMAIN d \ {key} |-> d[k]]
with(d, key, v) == [k \in DOMAIN d |-> IF k = key THEN v ELSE d[k]]

(* The documents load_list does not get a JSON list from. *)
BrokenFiles ==
    {BrokenFile(kind) : kind \in {"unreadable", "not_utf8", "invalid_json", "not_a_list"}}

(* The lists of at most one entry, and the lists of three entries whose   *)
(* first and last decode.                                                  *)
Documents(valid, entries) ==
    {ListFile(<<>>)} \cup {ListFile(<<e>>) : e \in entries}
       \cup {ListFile(<<a, e, b>>) : a \in valid, e \in entries, b \in valid}

HotelDictH1 == Hotel_to_dict(Hotel("H1", "n1", "k1", 1))
HotelDictH2 == with(Hotel_to_dict(Hotel("H2", "n1", "k1", 2)), "total_rooms", JStr("2"))
ValidHotelEntries == {JDict(HotelDictH1), JDict(HotelDictH2)}
HotelEntries ==
    ValidHotelEntries
       \cup {JDict(with(HotelDictH1, "total_rooms", v)) :
                v \in {JFloat(1), JBool(TRUE), JStr("many"), JNull, JNaN, JInf, JList}}
       \cup {JDict(with(HotelDictH1, "total_rooms", JInt(n))) : n \in {0, -1}}
       \cup {JDict(with(HotelDictH1, "name", JNull)), JDict(without(HotelDictH1, "city")),
             JDict(without(with(HotelDictH1, "total_rooms", JInf), "name")),
             JInt(7), JNull}
HotelDocs == BrokenFiles \cup Documents(ValidHotelEntries, HotelEntries)

CustomerDictC1 == Customer_to_dict(Customer("C1", "f1", "e1"))
ValidCustomerEntries == {JDict(CustomerDictC1), JDict(with(CustomerDictC1, "email", JInt(0)))}
CustomerEntries ==
    ValidCustomerEntries
       \cup {JDict(without(CustomerDictC1, "email")), JStr("C1"), JList}
CustomerDocs == BrokenFiles \cup Documents(ValidCustomerEntries, CustomerEntries)

ReservationDictR1 == Reservation_to_dict(Reservation("R1", "H1", "C1", 1, 2, 1))
ReservationDictU1 ==
    with(with(Reservation_to_dict(Reservation("U1", "H2", "C1", 1, 3, 1)),
              "check_in", JStr("20260301")), "rooms", JStr("1"))
ValidReservationEntries == {JDict(ReservationDictR1), JDict(ReservationDictU1)}
ReservationEntries ==
    ValidReservationEntries
       \cup {JDict(with(ReservationDictR1, "rooms", v)) :
                v \in {JFloat(1), JStr("one"), JNull, JInf}}
       \cup {JDict(with(ReservationDictR1, "check_out", v)) :
                v \in {JStr("2026-03-02T10:00"), JStr("tomorrow"), JInt(2), JNull}}
       \cup {JDict(with(ReservationDictR1, "hotel_id", JStr("H9"))),
             JDict(with(ReservationDictR1, "customer_id", JStr("C9"))),
             JDict(with(ReservationDictR1, "check_out", JStr(isoformat(1)))),
             JDict(with(ReservationDictR1, "check_in", JStr(isoformat(3))))}
       \cup {JDict(without(ReservationDictR1, "check_in")),
             JDict(without(ReservationDictR1, "rooms")),
             JDict(without(with(ReservationDictR1, "check_in", JStr("soon")), "rooms")),
             JBool(FALSE)}
ReservationDocs == BrokenFiles \cup Documents(ValidReservationEntries, ReservationEntries)

(* One of the three files is such a document; the other two are as the    *)
(* program writes them.  Or the files hold a hotel without rooms and a     *)
(* reservation with reversed dates for a customer that is not there.       *)
InitDocs ==
    /\ blocked = {}
    /\ inflight = [caller \in Callers |-> NoCall]
    /\ \/ /\ hotels_file \in HotelDocs
          /\ customers_file \in {MissingFile, ListFile(<<JDict(CustomerDictC1)>>)}
          /\ reservations_file = MissingFile
       \/ /\ hotels_file = ListFile(<<JDict(HotelDictH1)>>)
          /\ customers_file \in CustomerDocs
          /\ reservations_file = MissingFile
       \/ /\ hotels_file = ListFile(<<JDict(HotelDictH1)>>)
          /\ customers_file = ListFile(<<JDict(CustomerDictC1)>>)
          /\ reservations_file \in ReservationDocs
       \/ /\ hotels_file = ListFile(<<JDict(with(HotelDictH1, "total_rooms", JInt(0)))>>)
          /\ customers_file = MissingFile
          /\ reservations_file
                = ListFile(<<JDict(with(ReservationDictR1, "check_in",
                                        JStr(isoformat(3))))>>)

NextDocs ==
    \/ CreateHotel(Hotel("H2", "n1", "k1", 1), "written")
    \/ \E hotel_id \in HotelIds : DeleteHotel(hotel_id, "written", FALSE)
    \/ \E hotel_id \in HotelIds : DisplayHotel(hotel_id)
    \/ \E total_rooms \in Opt({2}) : ModifyHotel("H1", None, None, total_rooms, "written")
    \/ \E customer \in CustomerArgs : CreateCustomer(customer, "written")
    \/ \E customer_id \in CustomerIds : DeleteCustomer(customer_id, "written", FALSE)
    \/ \E customer_id \in CustomerIds : DisplayCustomer(customer_id)
    \/ \E customer_id \in CustomerIds : ModifyCustomer(customer_id, None, None, "written")
    \/ \E hotel_id \in HotelIds, customer_id \in CustomerIds :
          CreateReservation(hotel_id, customer_id, 1, 2, 1, Some("R1"), "unused", "written")
    \/ \E reservation_id \in ReservationIds : CancelReservation(reservation_id, "written")
    \/ \E hotel_id \in HotelIds, customer_id \in CustomerIds,
          uuid \in UuidDraw(Disk, None) :
          ReserveRoom(hotel_id, customer_id, 2, 3, 1, uuid, "written")
    \/ \E reservation_id \in ReservationIds :
          CancelReservationForHotel(reservation_id, "written")

SpecDocs == InitDocs /\ [][NextDocs]_vars

(***************************************************************************)
(* create_reservation by concurrent callers.  HotelSystem takes no lock    *)
(* and keeps no version of a document, so the file accesses of two calls   *)
(* interleave freely: a call is four steps, one per file access, each      *)
(* with the computation that follows it.  The callers' uuid4() tokens      *)
(* differ.                                                                 *)
(***************************************************************************)
uuid_of(caller) == IF caller = "a" THEN "U1" ELSE "U2"

(* Variant of write_pending: the document is read again and the new       *)
(* reservation appended to what it holds now.                              *)
write_pending_merged(file, call) ==
    save_list(file, Append(load_list(file, "reservation").items, call.request[1]),
              "written").file

(* The call creates a hotel (it creates a reservation otherwise). *)
creates_hotel(call) == "total_rooms" \in DOMAIN call.request[1]

(* Variant of write_pending: the document is read again and the call's    *)
(* entity appended to what it holds now.                                   *)
write_pending_reloaded(file, call) ==
    IF creates_hotel(call)
    THEN save_list(file, Append(load_list(file, "hotel").items, call.request[1]),
                   "written").file
    ELSE save_list(file, Append(load_list(file, "reservation").items, call.request[1]),
                   "written").file

(* The document written by save_list for the list the call holds in       *)
(* memory: what it loaded, with its new entity appended.                   *)
write_pending(file, call) == call.pending[1]

(* The call raised. *)
CallRaised(call, exc, msg) == [call EXCEPT !.pc = "raised", !.exc = exc, !.msg = msg]

(* Validation of the arguments and self._load_hotels(). *)
BeginCreateReservation(caller, hotel_id, customer_id, check_in, check_out, rooms) ==
    /\ inflight[caller].pc \in {"idle", "returned", "raised"}
    /\ inflight' =
          [inflight EXCEPT ![caller] =
              IF rooms <= 0
              THEN CallRaised(NoCall, "ValidationError", "rooms must be > 0")
              ELSE IF check_out <= check_in
              THEN CallRaised(NoCall, "ValidationError",
                              "check_out must be after check_in")
              ELSE [NoCall EXCEPT
                       !.pc = "load_customers",
                       !.request = Some(Reservation(uuid_of(caller), hotel_id,
                                                    customer_id, check_in, check_out,
                                                    rooms)),
                       !.hotels = Some(load_hotels(Disk))]]
    /\ UNCHANGED <<hotels_file, customers_file, reservations_file, blocked>>

(* self._load_customers(). *)
LoadCustomers(caller) ==
    /\ inflight[caller].pc = "load_customers"
    /\ inflight' = [inflight EXCEPT ![caller].pc = "load_reservations",
                                    ![caller].customers = Some(load_customers(Disk))]
    /\ UNCHANGED <<hotels_file, customers_file, reservations_file, blocked>>

(* The call after self._load_reservations(), the lookups and the          *)
(* availability check on what it loaded: checked is the outcome of the    *)
(* rest of the method, its save included.                                  *)
Checked(call, loaded_reservations, checked) ==
    IF checked.exc # "None" THEN CallRaised(call, checked.exc, checked.msg)
    ELSE [call EXCEPT !.pc = "save", !.loaded = loaded_reservations.items,
                      !.pending = Some(checked.disk.reservations)]

(* self._load_reservations(), index_by_id, the lookups of the hotel and   *)
(* the customer, the availability check and reservations.append(new).     *)
(* The guard keeps the caller's token one that no loaded reservation      *)
(* carries.                                                                *)
LoadReservations(caller) ==
    /\ inflight[caller].pc = "load_reservations"
    /\ \A i \in DOMAIN load_reservations(Disk).items :
          load_reservations(Disk).items[i].reservation_id # uuid_of(caller)
    /\ inflight' =
          [inflight EXCEPT ![caller] =
              Checked(inflight[caller], load_reservations(Disk),
                      resolve(Disk, inflight[caller].hotels[1],
                              inflight[caller].customers[1], load_reservations(Disk),
                              inflight[caller].request[1].hotel_id,
                              inflight[caller].request[1].customer_id,
                              inflight[caller].request[1], "written"))]
    /\ UNCHANGED <<hotels_file, customers_file, reservations_file, blocked>>

(* self._save_reservations(reservations) and return new_reservation. *)
SaveReservations(caller) ==
    /\ inflight[caller].pc = "save"
    /\ reservations_file' = write_pending(reservations_file, inflight[caller])
    /\ inflight' = [inflight EXCEPT ![caller].pc = "returned"]
    /\ UNCHANGED <<hotels_file, customers_file, blocked>>

(* One hotel and one customer are persisted, no reservation yet. *)
InitConcurrent ==
    /\ \E total_rooms \in 1..MaxRooms :
          hotels_file = save_list(MissingFile, <<Hotel("H1", "n1", "k1", total_rooms)>>,
                                  "written").file
    /\ customers_file = save_list(MissingFile, <<Customer("C1", "f1", "e1")>>, "written").file
    /\ reservations_file = MissingFile
    /\ blocked = {}
    /\ inflight = [caller \in Callers |-> NoCall]

NextConcurrent ==
    \E caller \in Callers :
       \/ \E hotel_id \in {"H1"}, customer_id \in CustomerIds, dates \in DateArgs,
             rooms \in RoomArgs :
             BeginCreateReservation(caller, hotel_id, customer_id, dates[1], dates[2],
                                    rooms)
       \/ LoadCustomers(caller)
       \/ LoadReservations(caller)
       \/ SaveReservations(caller)

SpecConcurrent == InitConcurrent /\ [][NextConcurrent]_vars

(***************************************************************************)
(* The calls that create and the call that cancels, from empty             *)
(* collections: no hotel is modified or deleted, so no room count is       *)
(* lowered.  A caller may supply the empty string as reservation_id.  With *)
(* fresh_ids, no caller supplies an id a persisted reservation carries.    *)
(***************************************************************************)
BookingIds == SuppliedIds \cup {""}

(* A persisted reservation of disk carries the id this call would assign. *)
id_in_use(disk, reservation_id, uuid) ==
    \E i \in DOMAIN load_reservations(disk).items :
        load_reservations(disk).items[i].reservation_id
           = assigned_id(reservation_id, uuid)

Booking(fresh_ids) ==
    \/ \E hotel \in HotelArgs : CreateHotel(hotel, "written")
    \/ \E customer \in CustomerArgs : CreateCustomer(customer, "written")
    \/ \E hotel_id \in HotelIds, customer_id \in CustomerIds, dates \in DateArgs,
          rooms \in RoomArgs, reservation_id \in Opt(BookingIds) :
          \E uuid \in UuidDraw(Disk, reservation_id) :
             /\ fresh_ids => ~id_in_use(Disk, reservation_id, uuid)
             /\ CreateReservation(hotel_id, customer_id, dates[1], dates[2], rooms,
                                  reservation_id, uuid, "written")
    \/ \E reservation_id \in ReservationIds : CancelReservation(reservation_id, "written")

NextBooking == Booking(FALSE)

SpecBooking == Init /\ [][NextBooking]_vars

NextFreshBooking == Booking(TRUE)

SpecFreshBooking == Init /\ [][NextFreshBooking]_vars

(***************************************************************************)
(* Several HotelSystem instances over the same three files, and writers    *)
(* outside the program.  An instance holds its three stores, and a store   *)
(* holds its path and nothing else: every _load_* reads the file, and the  *)
(* lists a method works on are its locals.  inflight[instance].hotels      *)
(* remembers the hotels document as the instance's last call left it,      *)
(* which no instance reads.                                                *)
(***************************************************************************)
(* Variant of documents_read: an instance that has made a call works on   *)
(* the hotels document as its last call left it.                          *)
documents_read_cached(instance) ==
    IF inflight[instance].hotels = <<>> THEN Disk
    ELSE [Disk EXCEPT !.hotels = inflight[instance].hotels[1]]

(* The documents the loads of a call by instance read: the files. *)
documents_read(instance) == Disk

(* The call of instance has the outcome o. *)
InstanceCommit(instance, o) ==
    /\ Len(o.disk.reservations.items) <= MaxReservations
    /\ hotels_file' = o.disk.hotels
    /\ customers_file' = o.disk.customers
    /\ reservations_file' = o.disk.reservations
    /\ inflight' = [inflight EXCEPT ![instance] =
                       [NoCall EXCEPT !.pc = "returned", !.hotels = <<o.disk.hotels>>]]
    /\ UNCHANGED blocked

InstanceCall(instance) ==
    \/ InstanceCommit(instance,
          create_hotel(documents_read(instance), Hotel("H1", "n1", "k1", 1), "written"))
    \/ InstanceCommit(instance, delete_hotel(documents_read(instance), "H1", "written"))
    \/ \E hotel_id \in HotelIds :
          InstanceCommit(instance, display_hotel(documents_read(instance), hotel_id))
    \/ \E total_rooms \in Opt({2}) :
          InstanceCommit(instance,
             modify_hotel(documents_read(instance), "H1", None, None, total_rooms, "written"))
    \/ \E customer \in CustomerArgs :
          InstanceCommit(instance, create_customer(documents_read(instance), customer, "written"))
    \/ \E customer_id \in CustomerIds :
          InstanceCommit(instance,
             delete_customer(documents_read(instance), customer_id, "written"))
    \/ \E customer_id \in CustomerIds :
          InstanceCommit(instance, display_customer(documents_read(instance), customer_id))
    \/ \E customer_id \in CustomerIds :
          InstanceCommit(instance,
             modify_customer(documents_read(instance), customer_id, None, None, "written"))
    \/ \E hotel_id \in HotelIds, customer_id \in CustomerIds :
          InstanceCommit(instance,
             create_reservation(documents_read(instance), hotel_id, customer_id, 1, 2, 1,
                                Some("R1"), "unused", "written"))
    \/ \E reservation_id \in ReservationIds :
          InstanceCommit(instance,
             cancel_reservation(documents_read(instance), reservation_id, "written"))
    \/ \E hotel_id \in HotelIds, customer_id \in CustomerIds,
          uuid \in UuidDraw(Disk, None) :
          InstanceCommit(instance,
             reserve_room(documents_read(instance), hotel_id, customer_id, 2, 3, 1,
                          uuid, "written"))
    \/ \E reservation_id \in ReservationIds :
          InstanceCommit(instance,
             cancel_reservation_for_hotel(documents_read(instance), reservation_id, "written"))

(* A writer outside the program replaces one of the documents. *)
ExternalRewrite ==
    /\ \/ /\ hotels_file' \in {MissingFile, ListFile(<<JDict(HotelDictH2)>>)}
          /\ UNCHANGED <<customers_file, reservations_file>>
       \/ /\ customers_file' \in {MissingFile, ListFile(<<JDict(CustomerDictC1)>>)}
          /\ UNCHANGED <<hotels_file, reservations_file>>
       \/ /\ reservations_file' \in {MissingFile, ListFile(<<JDict(ReservationDictU1)>>)}
          /\ UNCHANGED <<hotels_file, customers_file>>
    /\ UNCHANGED <<blocked, inflight>>

NextInstances ==
    \/ \E instance \in Callers : InstanceCall(instance)
    \/ ExternalRewrite

SpecInstances == Init /\ [][NextInstances]_vars

(***************************************************************************)
(* modify_hotel by an instance while other instances create and delete     *)
(* hotels.  modify_hotel accesses the hotels file three times: it loads,   *)
(* it saves the rewritten list, and display_hotel loads again for the      *)
(* value to return.  A call is three steps, one per file access.           *)
(* inflight[instance].pending holds the document the call writes.          *)
(***************************************************************************)
(* self._load_hotels(), the loop and the raises that precede the save. *)
BeginModifyHotel(instance, hotel_id, total_rooms) ==
    /\ inflight[instance].pc \in {"idle", "returned", "raised"}
    /\ inflight' =
          [inflight EXCEPT ![instance] =
              LET o == modify_hotel(Disk, hotel_id, None, None, total_rooms, "written")
              IN IF o.exc # "None" THEN CallRaised(NoCall, o.exc, o.msg)
                 ELSE [NoCall EXCEPT !.pc = "save", !.request = Some(hotel_id),
                                     !.pending = Some(o.disk.hotels)]]
    /\ UNCHANGED <<hotels_file, customers_file, reservations_file, blocked>>

(* self._save_hotels(updated). *)
SaveModifiedHotels(instance) ==
    /\ inflight[instance].pc = "save"
    /\ hotels_file' = inflight[instance].pending[1]
    /\ inflight' = [inflight EXCEPT ![instance].pc = "display"]
    /\ UNCHANGED <<customers_file, reservations_file, blocked>>

(* return self.display_hotel(hotel_id). *)
DisplayModifiedHotel(instance) ==
    /\ inflight[instance].pc = "display"
    /\ inflight' =
          [inflight EXCEPT ![instance] =
              LET o == display_hotel(Disk, inflight[instance].request[1])
              IN IF o.exc # "None" THEN CallRaised(inflight[instance], o.exc, o.msg)
                 ELSE [inflight[instance] EXCEPT !.pc = "returned"]]
    /\ UNCHANGED <<hotels_file, customers_file, reservations_file, blocked>>

NextModifyRace ==
    \/ \E instance \in Callers, hotel_id \in HotelIds, total_rooms \in Opt({0, 2}) :
          BeginModifyHotel(instance, hotel_id, total_rooms)
    \/ \E instance \in Callers : SaveModifiedHotels(instance)
    \/ \E instance \in Callers : DisplayModifiedHotel(instance)
    \/ \E hotel \in {Hotel("H1", "n1", "k1", 1), Hotel("H2", "n1", "k1", 2)} :
          CreateHotel(hotel, "written")
    \/ \E hotel_id \in HotelIds : DeleteHotel(hotel_id, "written", FALSE)

SpecModifyRace == Init /\ [][NextModifyRace]_vars

(***************************************************************************)
(* create_hotel and create_reservation by concurrent callers.              *)
(* create_hotel accesses the hotels file twice: it loads, and after the    *)
(* two checks and the append it saves the list it holds.  A create_hotel   *)
(* call is two steps, a create_reservation call the four steps above.      *)
(* inflight[caller].request is the entity the call creates, .loaded the    *)
(* list it loaded, .pending the document it writes.                        *)
(***************************************************************************)
(* self._load_hotels(), index_by_id, the two checks and hotels.append. *)
BeginCreateHotel(caller, hotel) ==
    /\ inflight[caller].pc \in {"idle", "returned", "raised"}
    /\ inflight' =
          [inflight EXCEPT ![caller] =
              LET o == create_hotel(Disk, hotel, "written")
              IN IF o.exc # "None" THEN CallRaised(NoCall, o.exc, o.msg)
                 ELSE [NoCall EXCEPT !.pc = "save_hotels", !.request = Some(hotel),
                                     !.loaded = load_hotels(Disk).items,
                                     !.pending = Some(o.disk.hotels)]]
    /\ UNCHANGED <<hotels_file, customers_file, reservations_file, blocked>>

(* self._save_hotels(hotels) and the return. *)
SaveHotels(caller) ==
    /\ inflight[caller].pc = "save_hotels"
    /\ hotels_file' = write_pending(hotels_file, inflight[caller])
    /\ inflight' = [inflight EXCEPT ![caller].pc = "returned"]
    /\ UNCHANGED <<customers_file, reservations_file, blocked>>

(* The hotels the callers create: an id that is taken, two that are free, *)
(* and a room count create_hotel rejects.                                  *)
RaceHotelArgs == {Hotel(i, "n1", "k1", t) : i \in {"H1", "H2", "H3"}, t \in {0, 1}}

NextLostUpdate ==
    \E caller \in Callers :
       \/ \E hotel \in RaceHotelArgs : BeginCreateHotel(caller, hotel)
       \/ SaveHotels(caller)
       \/ \E dates \in {<<1, 2>>, <<2, 3>>} :
             BeginCreateReservation(caller, "H1", "C1", dates[1], dates[2], 1)
       \/ LoadCustomers(caller)
       \/ LoadReservations(caller)
       \/ SaveReservations(caller)

SpecLostUpdate == InitConcurrent /\ [][NextLostUpdate]_vars

(***************************************************************************)
(* delete_hotel and delete_customer by a caller while another creates a    *)
(* reservation.  A delete accesses the files three times: it loads its     *)
(* collection and looks for the id, it loads the reservations and looks    *)
(* for a reference, and it saves its collection without the id.  A delete  *)
(* is three steps, a create_reservation call the four steps above.         *)
(* inflight[caller].request is [hotel_id |-> id] in a delete_hotel call    *)
(* and [customer_id |-> id] in a delete_customer call; .hotels or          *)
(* .customers is the collection the delete loaded, .loaded the             *)
(* reservations it loaded, .pending the document it writes.                *)
(***************************************************************************)
(* self._load_hotels() and the existence check. *)
BeginDeleteHotel(caller, hotel_id) ==
    /\ inflight[caller].pc \in {"idle", "returned", "raised"}
    /\ inflight' =
          [inflight EXCEPT ![caller] =
              IF load_hotels(Disk).exc # "None"
              THEN CallRaised(NoCall, load_hotels(Disk).exc, "")
              ELSE IF first_with_id(load_hotels(Disk).items, "hotel_id", hotel_id) = None
              THEN CallRaised(NoCall, "NotFoundError", "Hotel not found")
              ELSE [NoCall EXCEPT !.pc = "check_hotel_references",
                                  !.request = Some([hotel_id |-> hotel_id]),
                                  !.hotels = Some(load_hotels(Disk))]]
    /\ UNCHANGED <<hotels_file, customers_file, reservations_file, blocked>>

(* self._load_customers() and the existence check. *)
BeginDeleteCustomer(caller, customer_id) ==
    /\ inflight[caller].pc \in {"idle", "returned", "raised"}
    /\ inflight' =
          [inflight EXCEPT ![caller] =
              IF load_customers(Disk).exc # "None"
              THEN CallRaised(NoCall, load_customers(Disk).exc, "")
              ELSE IF first_with_id(load_customers(Disk).items, "customer_id",
                                    customer_id) = None
              THEN CallRaised(NoCall, "NotFoundError", "Customer not found")
              ELSE [NoCall EXCEPT !.pc = "check_customer_references",
                                  !.request = Some([customer_id |-> customer_id]),
                                  !.customers = Some(load_customers(Disk))]]
    /\ UNCHANGED <<hotels_file, customers_file, reservations_file, blocked>>

(* The delete call after self._load_reservations() and the reference      *)
(* check on what it loaded: the list without the id is ready to be saved, *)
(* or the call raised.                                                     *)
references_checked(call, id_field, loaded_reservations) ==
    IF loaded_reservations.exc # "None"
    THEN CallRaised(call, loaded_reservations.exc, "")
    ELSE IF first_with_id(loaded_reservations.items, id_field,
                          call.request[1][id_field]) # None
    THEN CallRaised([call EXCEPT !.loaded = loaded_reservations.items],
                    "ValidationError",
                    IF id_field = "hotel_id"
                    THEN "Cannot delete hotel with active reservations"
                    ELSE "Cannot delete customer with active reservations")
    ELSE IF id_field = "hotel_id"
    THEN [call EXCEPT
             !.pc = "save_hotels", !.loaded = loaded_reservations.items,
             !.pending = Some(save_list(MissingFile,
                                  SelectSeq(call.hotels[1].items,
                                      LAMBDA h : h.hotel_id # call.request[1].hotel_id),
                                  "written").file)]
    ELSE [call EXCEPT
             !.pc = "save_customers", !.loaded = loaded_reservations.items,
             !.pending = Some(save_list(MissingFile,
                                  SelectSeq(call.customers[1].items,
                                      LAMBDA c : c.customer_id
                                                    # call.request[1].customer_id),
                                  "written").file)]

(* delete_hotel: self._load_reservations(), the reference check and the   *)
(* list without the hotel.                                                 *)
CheckHotelReferences(caller) ==
    /\ inflight[caller].pc = "check_hotel_references"
    /\ inflight' = [inflight EXCEPT ![caller] =
                       references_checked(inflight[caller], "hotel_id",
                                          load_reservations(Disk))]
    /\ UNCHANGED <<hotels_file, customers_file, reservations_file, blocked>>

(* delete_customer: self._load_reservations(), the reference check and    *)
(* the list without the customer.                                          *)
CheckCustomerReferences(caller) ==
    /\ inflight[caller].pc = "check_customer_references"
    /\ inflight' = [inflight EXCEPT ![caller] =
                       references_checked(inflight[caller], "customer_id",
                                          load_reservations(Disk))]
    /\ UNCHANGED <<hotels_file, customers_file, reservations_file, blocked>>

(* self._save_customers(customers) and the return. *)
SaveCustomers(caller) ==
    /\ inflight[caller].pc = "save_customers"
    /\ customers_file' = write_pending(customers_file, inflight[caller])
    /\ inflight' = [inflight EXCEPT ![caller].pc = "returned"]
    /\ UNCHANGED <<hotels_file, reservations_file, blocked>>

NextDeleteRace ==
    \E caller \in Callers :
       \/ \E hotel_id \in HotelIds : BeginDeleteHotel(caller, hotel_id)
       \/ CheckHotelReferences(caller)
       \/ SaveHotels(caller)
       \/ \E customer_id \in CustomerIds : BeginDeleteCustomer(caller, customer_id)
       \/ CheckCustomerReferences(caller)
       \/ SaveCustomers(caller)
       \/ \E hotel_id \in HotelIds, dates \in {<<1, 2>>, <<2, 3>>} :
             BeginCreateReservation(caller, hotel_id, "C1", dates[1], dates[2], 1)
       \/ LoadCustomers(caller)
       \/ LoadReservations(caller)
       \/ SaveReservations(caller)

SpecDeleteRace == InitConcurrent /\ [][NextDeleteRace]_vars

(***************************************************************************)
(* The calls on a disk whose writes may fail with OSError before or after  *)
(* the file is opened for writing.                                         *)
(***************************************************************************)
WriteOutcomes == {"written", "refused", "torn"}

NextFailedSave ==
    \E io \in WriteOutcomes :
       \/ \E hotel \in {Hotel("H1", "n1", "k1", 1), Hotel("H2", "n1", "k1", 2)} :
             CreateHotel(hotel, io)
       \/ \E hotel_id \in HotelIds : DeleteHotel(hotel_id, io, FALSE)
       \/ \E hotel_id \in HotelIds : DisplayHotel(hotel_id)
       \/ \E hotel_id \in HotelIds, total_rooms \in Opt({2}) :
             ModifyHotel(hotel_id, None, None, total_rooms, io)
       \/ \E customer \in CustomerArgs : CreateCustomer(customer, io)
       \/ \E customer_id \in CustomerIds : DeleteCustomer(customer_id, io, FALSE)
       \/ \E customer_id \in CustomerIds : DisplayCustomer(customer_id)
       \/ \E customer_id \in CustomerIds, email \in Opt({"e2"}) :
             ModifyCustomer(customer_id, None, email, io)
       \/ \E hotel_id \in HotelIds, customer_id \in CustomerIds, dates \in {<<1, 2>>, <<1, 3>>},
             reservation_id \in Opt(SuppliedIds) :
             \E uuid \in UuidDraw(Disk, reservation_id) :
                CreateReservation(hotel_id, customer_id, dates[1], dates[2], 1,
                                  reservation_id, uuid, io)
       \/ \E reservation_id \in ReservationIds : CancelReservation(reservation_id, io)
       \/ \E hotel_id \in HotelIds, customer_id \in CustomerIds,
             uuid \in UuidDraw(Disk, None) :
             ReserveRoom(hotel_id, customer_id, 2, 3, 1, uuid, io)
       \/ \E reservation_id \in ReservationIds :
             CancelReservationForHotel(reservation_id, io)

SpecFailedSave == Init /\ [][NextFailedSave]_vars

(***************************************************************************)
(* The calls on documents in which several entities carry the same id.     *)
(* No create of the program writes a second hotel or customer with an id   *)
(* that is taken, but load_list accepts such a document, and               *)
(* create_reservation appends a second reservation with a reservation_id   *)
(* the caller supplies again.                                              *)
(***************************************************************************)
(* The sequences of two or three elements of S. *)
TwoOrThree(S) == {<<a, b>> : a, b \in S} \cup {<<a, b, c>> : a, b, c \in S}

InitDuplicates ==
    /\ \E hotels \in TwoOrThree({Hotel("H1", "n1", "k1", 1), Hotel("H1", "n2", "k1", 2),
                                 Hotel("H2", "n1", "k1", 1)}) :
          hotels_file = save_list(MissingFile, hotels, "written").file
    /\ \E customers \in TwoOrThree({Customer("C1", "f1", "e1"),
                                    Customer("C1", "f2", "e1")}) :
          /\ Len(customers) = 2
          /\ customers_file = save_list(MissingFile, customers, "written").file
    /\ \E reservations \in {<<>>} \cup TwoOrThree({Reservation("R1", "H1", "C1", 1, 2, 1),
                                                   Reservation("R1", "H1", "C1", 2, 3, 1),
                                                   Reservation("U1", "H2", "C1", 1, 3, 1)}) :
          reservations_file = save_list(MissingFile, reservations, "written").file
    /\ blocked = {}
    /\ inflight = [caller \in Callers |-> NoCall]

SpecDuplicates == InitDuplicates /\ [][NextDocs]_vars

(***************************************************************************)
(* Vocabulary of the properties.                                           *)
(***************************************************************************)
(* The entities the three documents hold. *)
PersistedHotels == load_hotels(Disk).items
PersistedCustomers == load_customers(Disk).items
PersistedReservations == load_reservations(Disk).items

HotelExists(hotel_id) ==
    \E i \in DOMAIN PersistedHotels : PersistedHotels[i].hotel_id = hotel_id
CustomerExists(customer_id) ==
    \E i \in DOMAIN PersistedCustomers : PersistedCustomers[i].customer_id = customer_id
ReservationExists(reservation_id) ==
    \E i \in DOMAIN PersistedReservations :
        PersistedReservations[i].reservation_id = reservation_id

(* The persisted hotel with this id. *)
TheHotel(hotel_id) ==
    PersistedHotels[CHOOSE i \in DOMAIN PersistedHotels :
                        PersistedHotels[i].hotel_id = hotel_id]

(* Half-open overlap of [a, b) and [c, d). *)
HalfOpenOverlap(a, b, c, d) == a < d /\ c < b

RECURSIVE SumRooms(_, _)
SumRooms(rs, I) ==
    IF I = {} THEN 0
    ELSE LET i == CHOOSE j \in I : TRUE
         IN rs[i].rooms + SumRooms(rs, I \ {i})

(* Rooms of the reservations on hotel_id in disk that overlap [ci, co). *)
DemandOn(disk, hotel_id, ci, co) ==
    LET rs == load_reservations(disk).items
    IN SumRooms(rs, {i \in DOMAIN rs :
                       /\ rs[i].hotel_id = hotel_id
                       /\ HalfOpenOverlap(ci, co, rs[i].check_in, rs[i].check_out)})

OverlapDemand(hotel_id, ci, co) == DemandOn(Disk, hotel_id, ci, co)

(* The failure kind a caller reads off an outcome; "Uncaught" is an       *)
(* exception that is neither NotFoundError nor ValidationError.           *)
FailureKind(o) ==
    IF o.exc = "None" THEN "Ok"
    ELSE IF o.exc = "NotFoundError" THEN "NotFound"
    ELSE IF o.exc # "ValidationError" THEN "Uncaught"
    ELSE IF o.msg \in {"Hotel already exists", "Customer already exists"}
    THEN "AlreadyExists"
    ELSE IF o.msg \in {"Cannot delete hotel with active reservations",
                       "Cannot delete customer with active reservations"}
    THEN "ReferentialConflict"
    ELSE IF o.msg = "Not enough rooms available" THEN "CapacityExceeded"
    ELSE "InvalidInput"

(* The ids of a sequence of entities are pairwise different. *)
UniqueIds(items, id_field) ==
    \A i, j \in DOMAIN items : items[i][id_field] = items[j][id_field] => i = j

C2_CapacityExceededExactly ==
    \A hotel_id \in HotelIds, customer_id \in CustomerIds, ci, co \in Days,
       rooms \in RoomArgs, reservation_id \in Opt(SuppliedIds), uuid \in UuidPool :
        (HotelExists(hotel_id) /\ CustomerExists(customer_id) /\ rooms > 0 /\ co > ci)
        => LET o == create_reservation(Disk, hotel_id, customer_id, ci, co, rooms,
                                       reservation_id, uuid, "written")
           IN IF OverlapDemand(hotel_id, ci, co) + rooms > TheHotel(hotel_id).total_rooms
              THEN FailureKind(o) = "CapacityExceeded" /\ o.disk = Disk
              ELSE /\ o.exc = "None"
                   /\ Len(load_reservations(o.disk).items) = Len(PersistedReservations) + 1

(* A hotel with one room taken on a range, and another reservation on    *)
(* another hotel or on disjoint dates: the remaining room can be          *)
(* reserved, one more cannot.                                              *)
C2_Witness ==
    \E hotel_id \in HotelIds, customer_id \in CustomerIds, ci, co \in Days :
        /\ HotelExists(hotel_id) /\ CustomerExists(customer_id) /\ ci < co
        /\ TheHotel(hotel_id).total_rooms = 2
        /\ OverlapDemand(hotel_id, ci, co) = 1
        /\ \E i \in DOMAIN PersistedReservations :
              \/ PersistedReservations[i].hotel_id # hotel_id
              \/ ~HalfOpenOverlap(ci, co, PersistedReservations[i].check_in,
                                  PersistedReservations[i].check_out)
        /\ create_reservation(Disk, hotel_id, customer_id, ci, co, 1, None, "U1",
                              "written").exc = "None"
        /\ create_reservation(Disk, hotel_id, customer_id, ci, co, 2, None, "U1",
                              "written").msg = "Not enough rooms available"

(***************************************************************************)
(* C3: in every reachable state, every persisted reservation's hotel_id    *)
(* is the id of a persisted hotel and its customer_id the id of a          *)
(* persisted customer.                                                     *)
(***************************************************************************)
C3_ReferencesResolve ==
    \A i \in DOMAIN PersistedReservations :
        /\ HotelExists(PersistedReservations[i].hotel_id)
        /\ CustomerExists(PersistedReservations[i].customer_id)

(* Reservations on two different hotels are persisted. *)
C3_Witness ==
    \E i, j \in DOMAIN PersistedReservations :
        /\ PersistedReservations[i].hotel_id # PersistedReservations[j].hotel_id
        /\ HotelExists(PersistedReservations[i].hotel_id)
        /\ HotelExists(PersistedReservations[j].hotel_id)
        /\ CustomerExists(PersistedReservations[i].customer_id)

(***************************************************************************)
(* C4: in every reachable state, no two entities of the same collection    *)
(* share an id, in the hotels, the customers and the reservations          *)
(* collection.                                                             *)
(***************************************************************************)
C4_IdsUnique ==
    /\ UniqueIds(PersistedHotels, "hotel_id")
    /\ UniqueIds(PersistedCustomers, "customer_id")
    /\ UniqueIds(PersistedReservations, "reservation_id")

(***************************************************************************)
(* C5: creating a hotel, customer or reservation (of otherwise valid       *)
(* arguments) whose id is already in its collection fails with             *)
(* AlreadyExists and leaves the collection unchanged.                      *)
(***************************************************************************)
C5_DuplicateCreateRejected ==
    /\ \A hotel \in HotelArgs :
          HotelExists(hotel.hotel_id)
          => LET o == create_hotel(Disk, hotel, "written")
             IN FailureKind(o) = "AlreadyExists" /\ o.disk = Disk
    /\ \A customer \in CustomerArgs :
          CustomerExists(customer.customer_id)
          => LET o == create_customer(Disk, customer, "written")
             IN FailureKind(o) = "AlreadyExists" /\ o.disk = Disk
    /\ \A hotel_id \in HotelIds, customer_id \in CustomerIds, ci, co \in Days,
          rooms \in RoomArgs, reservation_id \in SuppliedIds :
          (/\ ReservationExists(reservation_id)
           /\ HotelExists(hotel_id) /\ CustomerExists(customer_id)
           /\ rooms > 0 /\ co > ci)
          => LET o == create_reservation(Disk, hotel_id, customer_id, ci, co, rooms,
                                         Some(reservation_id), "unused", "written")
             IN FailureKind(o) = "AlreadyExists" /\ o.disk = Disk

(***************************************************************************)
(* C6: delete_hotel / delete_customer of an existing entity that a         *)
(* persisted reservation references fails with ReferentialConflict and     *)
(* leaves the three documents unchanged.                                   *)
(***************************************************************************)
C6_ReferencedDeleteRejected ==
    /\ \A hotel_id \in HotelIds :
          (/\ HotelExists(hotel_id)
           /\ \E i \in DOMAIN PersistedReservations :
                 PersistedReservations[i].hotel_id = hotel_id)
          => LET o == delete_hotel(Disk, hotel_id, "written")
             IN /\ o.exc = "ValidationError"
                /\ FailureKind(o) = "ReferentialConflict"
                /\ o.disk = Disk
    /\ \A customer_id \in CustomerIds :
          (/\ CustomerExists(customer_id)
           /\ \E i \in DOMAIN PersistedReservations :
                 PersistedReservations[i].customer_id = customer_id)
          => LET o == delete_customer(Disk, customer_id, "written")
             IN /\ o.exc = "ValidationError"
                /\ FailureKind(o) = "ReferentialConflict"
                /\ o.disk = Disk

(* A delete of a hotel and a delete of a customer were rejected, and the  *)
(* hotel, the customer and a reservation referencing both are persisted.  *)
C6_Witness ==
    \E hotel_id \in HotelIds \cap blocked, customer_id \in CustomerIds \cap blocked :
        /\ HotelExists(hotel_id) /\ CustomerExists(customer_id)
        /\ \E i \in DOMAIN PersistedReservations :
              /\ PersistedReservations[i].hotel_id = hotel_id
              /\ PersistedReservations[i].customer_id = customer_id

(***************************************************************************)
(* C7: once a delete of a hotel or customer was rejected because of        *)
(* referencing reservations, then as soon as no persisted reservation      *)
(* references it any more, delete of it succeeds, and display of that id   *)
(* then fails with NotFound.                                               *)
(***************************************************************************)
C7_DeleteSucceedsAfterCancel ==
    /\ \A hotel_id \in HotelIds \cap blocked :
          (\A i \in DOMAIN PersistedReservations :
               PersistedReservations[i].hotel_id # hotel_id)
          => LET o == delete_hotel(Disk, hotel_id, "written")
             IN /\ o.exc = "None"
                /\ FailureKind(display_hotel(o.disk, hotel_id)) = "NotFound"
    /\ \A customer_id \in CustomerIds \cap blocked :
          (\A i \in DOMAIN PersistedReservations :
               PersistedReservations[i].customer_id # customer_id)
          => LET o == delete_customer(Disk, customer_id, "written")
             IN /\ o.exc = "None"
                /\ FailureKind(display_customer(o.disk, customer_id)) = "NotFound"

(* The deletes of a hotel and of a customer were rejected, every          *)
(* reservation has been cancelled since, and both are still persisted.    *)
C7_Witness ==
    /\ PersistedReservations = <<>>
    /\ \E hotel_id \in HotelIds \cap blocked : FailureKind(display_hotel(Disk, hotel_id)) = "Ok"
    /\ \E customer_id \in CustomerIds \cap blocked :
          FailureKind(display_customer(Disk, customer_id)) = "Ok"

(***************************************************************************)
(* C8: date adjacency is not overlap: when every persisted reservation on  *)
(* the hotel ends at or before the requested check_in or starts at or      *)
(* after the requested check_out, a request for all of the hotel's         *)
(* total_rooms succeeds.                                                   *)
(***************************************************************************)
C8_AdjacentDoesNotCount ==
    \A hotel_id \in HotelIds, customer_id \in CustomerIds, ci, co \in Days,
       reservation_id \in Opt(SuppliedIds), uuid \in UuidPool :
        (/\ HotelExists(hotel_id) /\ CustomerExists(customer_id) /\ ci < co
         /\ \A i \in DOMAIN PersistedReservations :
               PersistedReservations[i].hotel_id = hotel_id
               => \/ PersistedReservations[i].check_out <= ci
                  \/ PersistedReservations[i].check_in >= co)
        => create_reservation(Disk, hotel_id, customer_id, ci, co,
                              TheHotel(hotel_id).total_rooms, reservation_id, uuid,
                              "written").exc = "None"

(* Two back-to-back reservations, each taking all rooms of their hotel. *)
C8_Witness ==
    \E i, j \in DOMAIN PersistedReservations :
        LET r == PersistedReservations[i]
            q == PersistedReservations[j]
        IN /\ r.hotel_id = q.hotel_id
           /\ r.check_out = q.check_in
           /\ r.rooms = TheHotel(r.hotel_id).total_rooms
           /\ q.rooms = TheHotel(r.hotel_id).total_rooms
           /\ i < j

(***************************************************************************)
(* C9: create_reservation with check_out <= check_in fails with            *)
(* ValidationError 'check_out must be after check_in' and leaves the       *)
(* documents unchanged, whether or not the hotel and the customer exist.   *)
(***************************************************************************)
C9_InvalidDatesMessage ==
    \A hotel_id \in HotelIds, customer_id \in CustomerIds, ci, co \in Days,
       rooms \in RoomArgs, reservation_id \in Opt(SuppliedIds), uuid \in UuidPool :
        co <= ci
        => LET o == create_reservation(Disk, hotel_id, customer_id, ci, co, rooms,
                                       reservation_id, uuid, "written")
           IN /\ o.exc = "ValidationError"
              /\ o.msg = "check_out must be after check_in"
              /\ o.disk = Disk

(* C9, amended: with check_out <= check_in the call fails with            *)
(* InvalidInput and leaves the documents unchanged, whether or not the    *)
(* hotel and the customer exist; the ValidationError reads 'check_out     *)
(* must be after check_in' when rooms > 0 and 'rooms must be > 0' when    *)
(* rooms <= 0.                                                            *)
C9_InvalidDatesRejected ==
    \A hotel_id \in HotelIds, customer_id \in CustomerIds, ci, co \in Days,
       rooms \in RoomArgs, reservation_id \in Opt(SuppliedIds), uuid \in UuidPool :
        co <= ci
        => LET o == create_reservation(Disk, hotel_id, customer_id, ci, co, rooms,
                                       reservation_id, uuid, "written")
           IN /\ o.exc = "ValidationError"
              /\ FailureKind(o) = "InvalidInput"
              /\ o.msg = IF rooms > 0 THEN "check_out must be after check_in"
                         ELSE "rooms must be > 0"
              /\ o.disk = Disk

(* One hotel and the customer exist, the other hotel does not, and a      *)
(* request with equal dates is rejected for either hotel.                 *)
C9_Witness ==
    \E h1, h2 \in HotelIds, customer_id \in CustomerIds, d \in Days :
        /\ HotelExists(h1) /\ ~HotelExists(h2) /\ CustomerExists(customer_id)
        /\ PersistedReservations # <<>>
        /\ create_reservation(Disk, h1, customer_id, d, d, 1, None, "U1", "written").msg
              = "check_out must be after check_in"
        /\ create_reservation(Disk, h2, customer_id, d, d, 1, None, "U1", "written").msg
              = "check_out must be after check_in"

(***************************************************************************)
(* C10: in create_reservation the hotel and the customer are resolved      *)
(* before the input is validated: whenever the hotel or the customer is    *)
(* absent the call fails with NotFound (also when rooms <= 0 or check_out  *)
(* <= check_in), and InvalidInput is reported only when both resolve.      *)
(***************************************************************************)
C10_ResolveBeforeValidate ==
    \A hotel_id \in HotelIds, customer_id \in CustomerIds, ci, co \in Days,
       rooms \in RoomArgs, reservation_id \in Opt(SuppliedIds), uuid \in UuidPool :
        LET o == create_reservation(Disk, hotel_id, customer_id, ci, co, rooms,
                                    reservation_id, uuid, "written")
        IN /\ (~HotelExists(hotel_id) \/ ~CustomerExists(customer_id))
              => FailureKind(o) = "NotFound"
           /\ FailureKind(o) = "InvalidInput"
              => HotelExists(hotel_id) /\ CustomerExists(customer_id)

(* C10, amended: the input is validated before the hotel and the customer *)
(* are resolved: whenever rooms <= 0 or check_out <= check_in the call    *)
(* fails with InvalidInput (also when the hotel or the customer is        *)
(* absent), and NotFound is reported exactly when the input is valid and  *)
(* the hotel or the customer is absent.                                   *)
C10_ValidateBeforeResolve ==
    \A hotel_id \in HotelIds, customer_id \in CustomerIds, ci, co \in Days,
       rooms \in RoomArgs, reservation_id \in Opt(SuppliedIds), uuid \in UuidPool :
        LET o == create_reservation(Disk, hotel_id, customer_id, ci, co, rooms,
                                    reservation_id, uuid, "written")
        IN /\ (rooms <= 0 \/ co <= ci) => FailureKind(o) = "InvalidInput"
           /\ FailureKind(o) = "NotFound"
              <=> /\ rooms > 0 /\ co > ci
                  /\ (~HotelExists(hotel_id) \/ ~CustomerExists(customer_id))

(* A hotel exists without any customer: a valid request is NotFound, a    *)
(* request for 0 rooms on an absent hotel is InvalidInput.                *)
C10_Witness ==
    \E h1, h2 \in HotelIds, customer_id \in CustomerIds :
        /\ HotelExists(h1) /\ ~HotelExists(h2) /\ ~CustomerExists(customer_id)
        /\ create_reservation(Disk, h1, customer_id, 1, 2, 1, None, "U1", "written").msg
              = "Customer not found"
        /\ create_reservation(Disk, h2, customer_id, 1, 2, 0, None, "U1", "written").msg
              = "rooms must be > 0"

(* Every persisted hotel has rooms, every persisted reservation has rooms *)
(* and a check_out after its check_in.                                    *)
StructurallyValid ==
    /\ \A i \in DOMAIN PersistedHotels : PersistedHotels[i].total_rooms > 0
    /\ \A i \in DOMAIN PersistedReservations :
          /\ PersistedReservations[i].rooms > 0
          /\ PersistedReservations[i].check_out > PersistedReservations[i].check_in

(***************************************************************************)
(* C11: create_hotel with total_rooms <= 0, modify_hotel with a supplied   *)
(* total_rooms <= 0 and create_reservation with rooms <= 0 each fail with  *)
(* InvalidInput and leave the documents unchanged; in every reachable      *)
(* state every persisted hotel has total_rooms > 0 and every persisted     *)
(* reservation has rooms > 0 and check_out > check_in.                     *)
(***************************************************************************)
C11_InvalidAlwaysInvalidInput ==
    /\ \A hotel \in HotelArgs :
          hotel.total_rooms <= 0
          => LET o == create_hotel(Disk, hotel, "written")
             IN FailureKind(o) = "InvalidInput" /\ o.disk = Disk
    /\ \A hotel_id \in HotelIds, name \in Opt(Names), city \in Opt(Cities),
          total_rooms \in RoomArgs :
          total_rooms <= 0
          => LET o == modify_hotel(Disk, hotel_id, name, city, Some(total_rooms), "written")
             IN FailureKind(o) = "InvalidInput" /\ o.disk = Disk
    /\ \A hotel_id \in HotelIds, customer_id \in CustomerIds, ci, co \in Days,
          rooms \in RoomArgs, reservation_id \in Opt(SuppliedIds), uuid \in UuidPool :
          rooms <= 0
          => LET o == create_reservation(Disk, hotel_id, customer_id, ci, co, rooms,
                                         reservation_id, uuid, "written")
             IN FailureKind(o) = "InvalidInput" /\ o.disk = Disk
    /\ StructurallyValid

(* C11, amended: each of the three calls fails and leaves the documents   *)
(* unchanged; create_hotel with total_rooms <= 0 fails with InvalidInput  *)
(* when the id is new and with AlreadyExists when the id is persisted;    *)
(* modify_hotel with a supplied total_rooms <= 0 fails with InvalidInput  *)
(* when the id is persisted and with NotFound when it is not;             *)
(* create_reservation with rooms <= 0 fails with InvalidInput; in every   *)
(* reachable state every persisted hotel has total_rooms > 0 and every    *)
(* persisted reservation has rooms > 0 and check_out > check_in.          *)
C11_InvalidRejectedWithoutMutation ==
    /\ \A hotel \in HotelArgs :
          hotel.total_rooms <= 0
          => LET o == create_hotel(Disk, hotel, "written")
             IN /\ FailureKind(o) = IF HotelExists(hotel.hotel_id) THEN "AlreadyExists"
                                    ELSE "InvalidInput"
                /\ o.disk = Disk
    /\ \A hotel_id \in HotelIds, name \in Opt(Names), city \in Opt(Cities),
          total_rooms \in RoomArgs :
          total_rooms <= 0
          => LET o == modify_hotel(Disk, hotel_id, name, city, Some(total_rooms), "written")
             IN /\ FailureKind(o) = IF HotelExists(hotel_id) THEN "InvalidInput"
                                    ELSE "NotFound"
                /\ o.disk = Disk
    /\ \A hotel_id \in HotelIds, customer_id \in CustomerIds, ci, co \in Days,
          rooms \in RoomArgs, reservation_id \in Opt(SuppliedIds), uuid \in UuidPool :
          rooms <= 0
          => LET o == create_reservation(Disk, hotel_id, customer_id, ci, co, rooms,
                                         reservation_id, uuid, "written")
             IN FailureKind(o) = "InvalidInput" /\ o.disk = Disk
    /\ StructurallyValid

(* One hotel and a reservation on it are persisted, the other hotel is    *)
(* not: creating the other with 0 rooms, setting the persisted one to 0   *)
(* rooms and reserving 0 rooms are each rejected as invalid input.        *)
C11_Witness ==
    \E h1, h2 \in HotelIds, customer_id \in CustomerIds :
        /\ HotelExists(h1) /\ ~HotelExists(h2) /\ CustomerExists(customer_id)
        /\ \E i \in DOMAIN PersistedReservations : PersistedReservations[i].hotel_id = h1
        /\ create_hotel(Disk, Hotel(h2, "n1", "k1", 0), "written").msg
              = "total_rooms must be > 0"
        /\ modify_hotel(Disk, h1, None, None, Some(0), "written").msg
              = "total_rooms must be > 0"
        /\ create_reservation(Disk, h1, customer_id, 1, 2, 0, None, "U1", "written").msg
              = "rooms must be > 0"

(* The outcome o of a cancel of reservation_id, called on the documents   *)
(* Disk, returned, removed every reservation with that id and nothing     *)
(* else, and the same cancel called again on what it left fails with      *)
(* NotFound and changes nothing.                                          *)
CancelledOnce(o, again, reservation_id) ==
    /\ o.exc = "None"
    /\ load_reservations(o.disk).items
          = SelectSeq(PersistedReservations, LAMBDA r : r.reservation_id # reservation_id)
    /\ \A i \in DOMAIN load_reservations(o.disk).items :
          load_reservations(o.disk).items[i].reservation_id # reservation_id
    /\ o.disk.hotels = Disk.hotels /\ o.disk.customers = Disk.customers
    /\ FailureKind(again) = "NotFound"
    /\ again.disk = o.disk

(***************************************************************************)
(* C12: cancelling a reservation id that is present succeeds and leaves    *)
(* no reservation with that id, all other reservations unchanged;          *)
(* cancelling the same id again fails with NotFound and changes nothing.   *)
(* The same holds for cancel_reservation_for_hotel, and for the            *)
(* reservation that reserve_room has just created.                         *)
(***************************************************************************)
C12_CancelThenNotFound ==
    /\ \A reservation_id \in ReservationIds :
          ReservationExists(reservation_id)
          => /\ CancelledOnce(cancel_reservation(Disk, reservation_id, "written"),
                              cancel_reservation(
                                  cancel_reservation(Disk, reservation_id, "written").disk,
                                  reservation_id, "written"),
                              reservation_id)
             /\ CancelledOnce(cancel_reservation_for_hotel(Disk, reservation_id, "written"),
                              cancel_reservation_for_hotel(
                                  cancel_reservation_for_hotel(Disk, reservation_id,
                                                               "written").disk,
                                  reservation_id, "written"),
                              reservation_id)
    /\ \A hotel_id \in HotelIds, customer_id \in CustomerIds, dates \in DateArgs,
          rooms \in RoomArgs, uuid \in UuidDraw(Disk, None) :
          LET reserved == reserve_room(Disk, hotel_id, customer_id, dates[1], dates[2],
                                       rooms, uuid, "written")
              cancelled == cancel_reservation_for_hotel(reserved.disk, uuid, "written")
          IN reserved.exc = "None"
             => /\ reserved.ret[1].reservation_id = uuid
                /\ cancelled.exc = "None"
                /\ load_reservations(cancelled.disk).items = PersistedReservations
                /\ FailureKind(cancel_reservation_for_hotel(cancelled.disk, uuid, "written"))
                      = "NotFound"

(* Two reservations with different ids are persisted, one of them made    *)
(* by reserve_room (its id is a uuid); cancelling it leaves the other.    *)
C12_Witness ==
    /\ Len(PersistedReservations) = 2
    /\ \E uuid \in UuidPool, reservation_id \in SuppliedIds :
          /\ ReservationExists(uuid) /\ ReservationExists(reservation_id)
          /\ Len(load_reservations(cancel_reservation(Disk, uuid, "written").disk).items) = 1
          /\ cancel_reservation_for_hotel(cancel_reservation(Disk, uuid, "written").disk,
                                          uuid, "written").msg = "Reservation not found"

(* The outcome o, of a call on the documents Disk, is NotFound and left   *)
(* the three documents as they were.                                      *)
NotFoundUnchanged(o) == FailureKind(o) = "NotFound" /\ o.disk = Disk

(***************************************************************************)
(* C13: display, modify and delete of a hotel or a customer, and           *)
(* cancel_reservation, called with an id absent from the collection, fail  *)
(* with NotFound and leave every collection unchanged.                     *)
(***************************************************************************)
C13_AbsentIdNotFound ==
    /\ \A hotel_id \in HotelIds :
          ~HotelExists(hotel_id)
          => /\ NotFoundUnchanged(display_hotel(Disk, hotel_id))
             /\ NotFoundUnchanged(delete_hotel(Disk, hotel_id, "written"))
             /\ \A name \in Opt(Names), city \in Opt(Cities),
                   total_rooms \in Opt(RoomArgs) :
                   NotFoundUnchanged(modify_hotel(Disk, hotel_id, name, city,
                                                  total_rooms, "written"))
    /\ \A customer_id \in CustomerIds :
          ~CustomerExists(customer_id)
          => /\ NotFoundUnchanged(display_customer(Disk, customer_id))
             /\ NotFoundUnchanged(delete_customer(Disk, customer_id, "written"))
             /\ \A full_name \in Opt(FullNames), email \in Opt(Emails) :
                   NotFoundUnchanged(modify_customer(Disk, customer_id, full_name,
                                                     email, "written"))
    /\ \A reservation_id \in ReservationIds :
          ~ReservationExists(reservation_id)
          => NotFoundUnchanged(cancel_reservation(Disk, reservation_id, "written"))

(* A hotel is persisted next to an absent one, the customer was deleted   *)
(* again and no reservation is left: each kind of call meets an absent id *)
(* while the hotels document is not empty.                                *)
C13_Witness ==
    \E h1, h2 \in HotelIds, customer_id \in CustomerIds, reservation_id \in ReservationIds :
        /\ HotelExists(h1) /\ ~HotelExists(h2)
        /\ customers_file # MissingFile /\ ~CustomerExists(customer_id)
        /\ reservations_file # MissingFile /\ ~ReservationExists(reservation_id)
        /\ modify_hotel(Disk, h2, None, None, Some(0), "written").msg = "Hotel not found"
        /\ delete_customer(Disk, customer_id, "written").msg = "Customer not found"
        /\ cancel_reservation(Disk, reservation_id, "written").msg = "Reservation not found"

(* The value a field has after a modify that was given opt for it. *)
Applied(opt, prior) == IF opt = None THEN prior ELSE opt[1]

(***************************************************************************)
(* C14: modify_hotel / modify_customer on an existing id (with a supplied  *)
(* total_rooms > 0) changes exactly the supplied fields: every unsupplied  *)
(* field keeps its prior value, the id is unchanged, every other entity    *)
(* and the order of the collection are unchanged, the other documents are  *)
(* untouched, and the call returns the entity with the supplied fields     *)
(* applied.                                                                *)
(***************************************************************************)
C14_ModifyChangesSuppliedOnly ==
    /\ \A hotel_id \in HotelIds, name \in Opt(ModifyNames), city \in Opt(ModifyCities),
          total_rooms \in Opt(RoomArgs \ {0}) :
          HotelExists(hotel_id)
          => LET o == modify_hotel(Disk, hotel_id, name, city, total_rooms, "written")
                 after == load_hotels(o.disk).items
             IN /\ o.exc = "None"
                /\ Len(after) = Len(PersistedHotels)
                /\ \A i \in DOMAIN PersistedHotels :
                      IF PersistedHotels[i].hotel_id # hotel_id
                      THEN after[i] = PersistedHotels[i]
                      ELSE /\ after[i].hotel_id = hotel_id
                           /\ after[i].name = Applied(name, PersistedHotels[i].name)
                           /\ after[i].city = Applied(city, PersistedHotels[i].city)
                           /\ after[i].total_rooms
                                 = Applied(total_rooms, PersistedHotels[i].total_rooms)
                           /\ o.ret = Some(after[i])
                /\ o.disk.customers = Disk.customers
                /\ o.disk.reservations = Disk.reservations
    /\ \A customer_id \in CustomerIds, full_name \in Opt(ModifyFullNames),
          email \in Opt(ModifyEmails) :
          CustomerExists(customer_id)
          => LET o == modify_customer(Disk, customer_id, full_name, email, "written")
                 after == load_customers(o.disk).items
             IN /\ o.exc = "None"
                /\ Len(after) = Len(PersistedCustomers)
                /\ \A i \in DOMAIN PersistedCustomers :
                      IF PersistedCustomers[i].customer_id # customer_id
                      THEN after[i] = PersistedCustomers[i]
                      ELSE /\ after[i].customer_id = customer_id
                           /\ after[i].full_name
                                 = Applied(full_name, PersistedCustomers[i].full_name)
                           /\ after[i].email = Applied(email, PersistedCustomers[i].email)
                           /\ o.ret = Some(after[i])
                /\ o.disk.hotels = Disk.hotels
                /\ o.disk.reservations = Disk.reservations

(* After modifies: the first hotel has a modified name and its created    *)
(* city, the second its created name and a modified city, and the         *)
(* customer a modified email and the created full_name.                   *)
C14_Witness ==
    /\ Len(PersistedHotels) = 2
    /\ PersistedHotels[1].name = "n2" /\ PersistedHotels[1].city = "k1"
    /\ PersistedHotels[2].name = "n1" /\ PersistedHotels[2].city = "k2"
    /\ PersistedHotels[1].total_rooms # PersistedHotels[2].total_rooms
    /\ Len(PersistedCustomers) = 1
    /\ PersistedCustomers[1].full_name = "f1" /\ PersistedCustomers[1].email = "e2"

(* The three documents with the item_name each is loaded under. *)
Stores ==
    {<<hotels_file, "hotel">>, <<customers_file, "customer">>,
     <<reservations_file, "reservation">>}

(* The entry at position i of the list decodes: it is a dict and the      *)
(* item_loader returns on it.                                              *)
DecodesAt(payload, item_name, i) ==
    /\ payload[i].t = "dict"
    /\ item_loader(item_name, payload[i].d).exc = "None"

(* The decoded valid entries of the list, in their order, and the indexes *)
(* (from 0, as printed) of the others, in their order.                     *)
ValidElements(payload, item_name) ==
    LET positions == SelectSeq([i \in DOMAIN payload |-> i],
                               LAMBDA i : DecodesAt(payload, item_name, i))
    IN [k \in DOMAIN positions |->
           item_loader(item_name, payload[positions[k]].d).value[1]]

InvalidIndexes(payload, item_name) ==
    LET positions == SelectSeq([i \in DOMAIN payload |-> i],
                               LAMBDA i : ~DecodesAt(payload, item_name, i))
    IN [k \in DOMAIN positions |-> IntText(positions[k] - 1)]

(***************************************************************************)
(* C15: for a document that is a list, load_list returns exactly the       *)
(* decoded valid elements in their order and prints one diagnostic per     *)
(* invalid element (not a dict, or its decode fails), naming its index;    *)
(* an invalid element never discards or reorders its siblings and never    *)
(* makes load_list raise.                                                  *)
(***************************************************************************)
C15_ListLoadSkipsInvalid ==
    \A store \in Stores :
        store[1].kind = "list"
        => load_list(store[1], store[2])
              = Loaded(ValidElements(store[1].items, store[2]),
                       InvalidIndexes(store[1].items, store[2]))

(***************************************************************************)
(* C16: whole-document failures of load_list never raise: a missing file   *)
(* gives an empty list and no diagnostic; an unreadable file, a file whose *)
(* content, whatever it is, is no well-formed JSON document, and a         *)
(* document whose top level is no list each give an empty list and exactly *)
(* one diagnostic.                                                         *)
(***************************************************************************)
C16_WholeDocumentFailureReturnsEmpty ==
    \A store \in Stores :
        /\ store[1].kind = "missing" => load_list(store[1], store[2]) = Loaded(<<>>, <<>>)
        /\ store[1].kind \in {"unreadable", "not_utf8", "invalid_json", "not_a_list"}
           => /\ load_list(store[1], store[2]).exc = "None"
              /\ load_list(store[1], store[2]).items = <<>>
              /\ Len(load_list(store[1], store[2]).diagnostics) = 1

(* A call that returns when its save succeeds is reported as failed when  *)
(* its save fails: saved is its outcome with the write succeeding, failed *)
(* its outcome with the write raising OSError.                            *)
ReportedAsFailed(saved, failed) ==
    saved.exc = "None" => failed.exc # "None" /\ failed.ret = None

(***************************************************************************)
(* C17: an I/O failure during save_list is reported with exactly one       *)
(* diagnostic and not raised; a service operation whose save fails is      *)
(* terminal for that operation and is reported as failed before it         *)
(* returns.                                                                *)
(***************************************************************************)
C17_FailedSaveFailsTheOperation ==
    /\ \A store \in Stores :
          /\ save_list(store[1], load_list(store[1], store[2]).items, "refused").exc = "None"
          /\ Len(save_list(store[1], load_list(store[1], store[2]).items,
                           "refused").diagnostics) = 1
    /\ \A hotel \in HotelArgs :
          ReportedAsFailed(create_hotel(Disk, hotel, "written"),
                           create_hotel(Disk, hotel, "refused"))
    /\ \A hotel_id \in HotelIds :
          /\ ReportedAsFailed(delete_hotel(Disk, hotel_id, "written"),
                              delete_hotel(Disk, hotel_id, "refused"))
          /\ \A name \in Opt(Names), city \in Opt(Cities), total_rooms \in Opt(RoomArgs) :
                ReportedAsFailed(
                    modify_hotel(Disk, hotel_id, name, city, total_rooms, "written"),
                    modify_hotel(Disk, hotel_id, name, city, total_rooms, "refused"))
    /\ \A customer \in CustomerArgs :
          ReportedAsFailed(create_customer(Disk, customer, "written"),
                           create_customer(Disk, customer, "refused"))
    /\ \A customer_id \in CustomerIds :
          /\ ReportedAsFailed(delete_customer(Disk, customer_id, "written"),
                              delete_customer(Disk, customer_id, "refused"))
          /\ \A full_name \in Opt(FullNames), email \in Opt(Emails) :
                ReportedAsFailed(
                    modify_customer(Disk, customer_id, full_name, email, "written"),
                    modify_customer(Disk, customer_id, full_name, email, "refused"))
    /\ \A hotel_id \in HotelIds, customer_id \in CustomerIds, dates \in DateArgs,
          rooms \in RoomArgs, reservation_id \in Opt(SuppliedIds), uuid \in UuidPool :
          ReportedAsFailed(
              create_reservation(Disk, hotel_id, customer_id, dates[1], dates[2], rooms,
                                 reservation_id, uuid, "written"),
              create_reservation(Disk, hotel_id, customer_id, dates[1], dates[2], rooms,
                                 reservation_id, uuid, "refused"))
    /\ \A reservation_id \in ReservationIds :
          ReportedAsFailed(cancel_reservation(Disk, reservation_id, "written"),
                           cancel_reservation(Disk, reservation_id, "refused"))

(* The text YYYY-MM-DD of day d of March 2026, digit by digit. *)
IsoDateText(d) ==
    "2026" \o "-" \o "03" \o "-" \o IntText(d \div 10) \o IntText(d % 10)

(***************************************************************************)
(* C18: for every valid Hotel, Customer and Reservation e,                 *)
(* from_dict(to_dict(e)) = e; the encoded map has every field, and dates   *)
(* are rendered as ISO YYYY-MM-DD strings.  Checked for every entity the   *)
(* callers can pass and for every persisted entity.                        *)
(***************************************************************************)
C18_EncodeDecodeRoundTrip ==
    /\ \A hotel \in {h \in HotelArgs : h.total_rooms > 0}
                      \cup {PersistedHotels[i] : i \in DOMAIN PersistedHotels} :
          /\ Hotel_from_dict(Hotel_to_dict(hotel)) = Decoded(hotel)
          /\ DOMAIN Hotel_to_dict(hotel) = {"hotel_id", "name", "city", "total_rooms"}
    /\ \A customer \in CustomerArgs
                         \cup {PersistedCustomers[i] : i \in DOMAIN PersistedCustomers} :
          /\ Customer_from_dict(Customer_to_dict(customer)) = Decoded(customer)
          /\ DOMAIN Customer_to_dict(customer) = {"customer_id", "full_name", "email"}
    /\ \A reservation \in
             {Reservation(i, h, c, d[1], d[2], n) :
                 i \in ReservationIds, h \in HotelIds, c \in CustomerIds,
                 d \in {dd \in DateArgs : dd[1] < dd[2]}, n \in RoomArgs \ {0}}
                \cup {PersistedReservations[i] : i \in DOMAIN PersistedReservations} :
          /\ Reservation_from_dict(Reservation_to_dict(reservation)) = Decoded(reservation)
          /\ DOMAIN Reservation_to_dict(reservation)
                = {"reservation_id", "hotel_id", "customer_id", "check_in", "check_out",
                   "rooms"}
          /\ Reservation_to_dict(reservation).check_in
                = JStr(IsoDateText(reservation.check_in))
          /\ Reservation_to_dict(reservation).check_out
                = JStr(IsoDateText(reservation.check_out))

(* A hotel, a customer and a reservation were saved and load back: the    *)
(* reservations document holds the check_out of the last day as the text  *)
(* 2026-03-03 and the reservation read from it ends on day MaxDay.        *)
C18_Witness ==
    /\ PersistedHotels # <<>> /\ PersistedCustomers # <<>>
    /\ \E i \in DOMAIN PersistedReservations :
          /\ PersistedReservations[i].check_out = MaxDay
          /\ reservations_file.items[i].d.check_out.s = IsoDateText(MaxDay)
          /\ reservations_file.items[i].d.rooms = JInt(PersistedReservations[i].rooms)

(* The keys from_dict reads for each kind of entity. *)
RequiredKeys(item_name) ==
    IF item_name = "hotel" THEN {"hotel_id", "name", "city", "total_rooms"}
    ELSE IF item_name = "customer" THEN {"customer_id", "full_name", "email"}
    ELSE {"reservation_id", "hotel_id", "customer_id", "check_in", "check_out", "rooms"}

(* The JSON value has an integer to give: an integer, a boolean, a finite *)
(* float, or the decimal text of an integer.                               *)
IntegerLike(v) ==
    \/ v.t \in {"int", "bool", "float"}
    \/ v.t = "str" /\ \E n \in -9..99 : v.s = IntText(n)

(* The JSON value is the text of a calendar date. *)
IsoLike(v) == v.t = "str" /\ \E d \in 1..31 : v.s \in {IsoDateText(d), "202603" \o TwoDigits(d)}

(* Every key is present in data and some value cannot be coerced to the   *)
(* type of its field.                                                      *)
Uncoercible(item_name, data) ==
    /\ RequiredKeys(item_name) \subseteq DOMAIN data
    /\ \/ item_name = "hotel" /\ ~IntegerLike(data.total_rooms)
       \/ /\ item_name = "reservation"
          /\ \/ ~IsoLike(data.check_in) \/ ~IsoLike(data.check_out)
             \/ ~IntegerLike(data.rooms)

(***************************************************************************)
(* C19: from_dict fails with KeyError when any required key is absent,     *)
(* and with ValueError or TypeError when a present value cannot be         *)
(* coerced to the type of its field (non-integer total_rooms or rooms,     *)
(* non-ISO check_in or check_out); it never returns a partially filled     *)
(* entity.  Stated of every dict entry of the three documents.             *)
(***************************************************************************)
C19_DecodeFailsWithKeyOrTypeError ==
    \A store \in Stores : \A i \in DOMAIN store[1].items :
        store[1].items[i].t = "dict"
        => LET data == store[1].items[i].d
               decoded == item_loader(store[2], data)
           IN /\ ~(RequiredKeys(store[2]) \subseteq DOMAIN data)
                 => decoded.exc = "KeyError"
              /\ Uncoercible(store[2], data)
                 => decoded.exc \in {"ValueError", "TypeError"}
              /\ decoded.exc # "None" => decoded.value = None
              /\ decoded.exc = "None"
                 => DOMAIN decoded.value[1] = RequiredKeys(store[2])

(* The reservation the caller's call is about. *)
Requested(caller) == inflight[caller].request[1]

(* Both callers' calls have returned, and neither had loaded the          *)
(* reservation of the other: each loaded the reservations before the      *)
(* other saved.                                                            *)
BothLoadedBeforeEitherSaved(a, b) ==
    /\ a # b
    /\ inflight[a].pc = "returned" /\ inflight[b].pc = "returned"
    /\ \A i \in DOMAIN inflight[a].loaded :
          inflight[a].loaded[i].reservation_id # uuid_of(b)
    /\ \A i \in DOMAIN inflight[b].loaded :
          inflight[b].loaded[i].reservation_id # uuid_of(a)

(* The two calls are on the same hotel, their date ranges overlap, and    *)
(* together they ask for more rooms than the hotel has.                    *)
Conflicting(a, b) ==
    /\ Requested(a).hotel_id = Requested(b).hotel_id
    /\ HalfOpenOverlap(Requested(a).check_in, Requested(a).check_out,
                       Requested(b).check_in, Requested(b).check_out)
    /\ Requested(a).rooms + Requested(b).rooms
          > TheHotel(Requested(a).hotel_id).total_rooms

(* The persisted rooms on the hotel of a's call over the dates the two    *)
(* calls share.                                                            *)
SharedDemand(a, b) ==
    OverlapDemand(Requested(a).hotel_id,
                  IF Requested(a).check_in > Requested(b).check_in
                  THEN Requested(a).check_in ELSE Requested(b).check_in,
                  IF Requested(a).check_out < Requested(b).check_out
                  THEN Requested(a).check_out ELSE Requested(b).check_out)

(***************************************************************************)
(* C20: when two create_reservation calls on the same hotel both load the  *)
(* reservations before either saves, both pass the availability check and  *)
(* the hotel ends up over-booked: the persisted reservations on that hotel *)
(* for the overlapping dates sum to more than total_rooms.                 *)
(***************************************************************************)
C20_RaceOverbooksPersisted ==
    \A a, b \in Callers :
        (BothLoadedBeforeEitherSaved(a, b) /\ Conflicting(a, b))
        => SharedDemand(a, b) > TheHotel(Requested(a).hotel_id).total_rooms

(* C20, amended: when two create_reservation calls on the same hotel both *)
(* load the reservations before either saves, the check of each ignores   *)
(* the other, so both pass and both return their reservation; the later   *)
(* save overwrites the earlier one, so exactly one of the two             *)
(* reservations is persisted (the collection is what its caller loaded    *)
(* plus its own) and the persisted reservations on that hotel for the     *)
(* overlapping dates still sum to at most total_rooms: the rooms          *)
(* confirmed to the two callers exceed total_rooms, the persisted ones do *)
(* not.                                                                    *)
C20_RaceLosesEarlierSave ==
    /\ \A a, b \in Callers :
          (/\ a # b
           /\ inflight[a].pc = "save" /\ inflight[b].pc = "load_reservations"
           /\ uuid_of(b) \notin {PersistedReservations[i].reservation_id :
                                    i \in DOMAIN PersistedReservations}
           /\ Requested(b).rooms + OverlapDemand(Requested(b).hotel_id,
                                                 Requested(b).check_in,
                                                 Requested(b).check_out)
                 <= TheHotel(Requested(b).hotel_id).total_rooms)
          => Checked(inflight[b], load_reservations(Disk),
                     resolve(Disk, inflight[b].hotels[1], inflight[b].customers[1],
                             load_reservations(Disk), Requested(b).hotel_id,
                             Requested(b).customer_id, Requested(b), "written")).pc = "save"
    /\ \A a, b \in Callers :
          (BothLoadedBeforeEitherSaved(a, b) /\ Conflicting(a, b))
          => /\ inflight[a].exc = "None" /\ inflight[b].exc = "None"
             /\ ReservationExists(uuid_of(a)) # ReservationExists(uuid_of(b))
             /\ PersistedReservations \in
                   {Append(inflight[a].loaded, Requested(a)),
                    Append(inflight[b].loaded, Requested(b))}
             /\ SharedDemand(a, b) <= TheHotel(Requested(a).hotel_id).total_rooms

(* Both calls returned after loading before either saved, on the same     *)
(* hotel and overlapping dates, each asking for all rooms of the hotel;   *)
(* one reservation is persisted.                                           *)
C20_Witness ==
    \E a, b \in Callers :
        /\ BothLoadedBeforeEitherSaved(a, b) /\ Conflicting(a, b)
        /\ Requested(a).rooms = TheHotel(Requested(a).hotel_id).total_rooms
        /\ Requested(b).rooms = TheHotel(Requested(a).hotel_id).total_rooms
        /\ Requested(a).check_in # Requested(b).check_in
        /\ Len(PersistedReservations) = 1

(* The ids of the persisted reservations. *)
PersistedReservationIds ==
    {PersistedReservations[i].reservation_id : i \in DOMAIN PersistedReservations}

(* The outcome o of a create_reservation called on the documents Disk     *)
(* returned the reservation new_reservation and left the reservations     *)
(* collection as it was with new_reservation appended.                    *)
AppendedAndReturned(o, new_reservation) ==
    /\ o.ret = Some(new_reservation)
    /\ load_reservations(o.disk).items = Append(PersistedReservations, new_reservation)
    /\ o.disk.hotels = Disk.hotels /\ o.disk.customers = Disk.customers

(***************************************************************************)
(* C21: a create_reservation that succeeds returns a Reservation with the  *)
(* requested hotel_id, customer_id, check_in, check_out and rooms; its id  *)
(* is the reservation_id the caller supplied when one is supplied, and     *)
(* otherwise a generated id that no persisted reservation carries; the     *)
(* persisted collection afterwards is the previous one with this           *)
(* reservation appended.                                                   *)
(***************************************************************************)
C21_CreateReturnsRequested ==
    \A hotel_id \in HotelIds, customer_id \in CustomerIds, dates \in DateArgs,
       rooms \in RoomArgs, reservation_id \in Opt(BookingIds) :
        \A uuid \in UuidDraw(Disk, reservation_id) :
           LET o == create_reservation(Disk, hotel_id, customer_id, dates[1], dates[2],
                                       rooms, reservation_id, uuid, "written")
           IN o.exc = "None"
              => /\ \E id \in ReservationIds \cup BookingIds :
                       AppendedAndReturned(o, Reservation(id, hotel_id, customer_id,
                                                          dates[1], dates[2], rooms))
                 /\ IF reservation_id # None
                    THEN o.ret[1].reservation_id = reservation_id[1]
                    ELSE o.ret[1].reservation_id \notin PersistedReservationIds

(* The reservations a caller can hand to the store: any ids, any dates. *)
ReservationArgs ==
    {Reservation(i, h, c, d[1], d[2], n) :
        i \in ReservationIds, h \in HotelIds, c \in CustomerIds, d \in DateArgs,
        n \in RoomArgs}

(* save_list(xs) on an absent document followed by load_list returns xs,  *)
(* prints nothing and raises nothing.                                     *)
SavedThenLoaded(xs, item_name) ==
    load_list(save_list(MissingFile, xs, "written").file, item_name) = Loaded(xs, <<>>)

(***************************************************************************)
(* C22: after a create_hotel(h) or create_customer(c) that succeeds,       *)
(* display of that id returns an entity equal to the one created; and      *)
(* load_list after save_list(xs) of valid entities returns xs, the same    *)
(* elements in the same order.                                             *)
(***************************************************************************)
C22_PersistThenRead ==
    /\ \A hotel \in HotelArgs :
          LET o == create_hotel(Disk, hotel, "written")
          IN o.exc = "None" => display_hotel(o.disk, hotel.hotel_id) = Returned(Some(hotel), o.disk)
    /\ \A customer \in CustomerArgs :
          LET o == create_customer(Disk, customer, "written")
          IN o.exc = "None"
             => display_customer(o.disk, customer.customer_id)
                   = Returned(Some(customer), o.disk)
    /\ SavedThenLoaded(PersistedHotels, "hotel")
    /\ SavedThenLoaded(PersistedCustomers, "customer")
    /\ SavedThenLoaded(PersistedReservations, "reservation")
    /\ \A hotel \in HotelArgs : SavedThenLoaded(Append(PersistedHotels, hotel), "hotel")
    /\ \A customer \in CustomerArgs :
          SavedThenLoaded(Append(PersistedCustomers, customer), "customer")
    /\ \A reservation \in ReservationArgs :
          SavedThenLoaded(Append(PersistedReservations, reservation), "reservation")

(* One hotel is persisted and the other is created and displayed next to  *)
(* it; the customer is created and displayed; two different reservations  *)
(* are persisted, so a list of three is saved and loaded.                 *)
C22_Witness ==
    /\ Len(PersistedHotels) = 1
    /\ \E hotel \in HotelArgs :
          /\ create_hotel(Disk, hotel, "written").exc = "None"
          /\ display_hotel(create_hotel(Disk, hotel, "written").disk, hotel.hotel_id).ret
                = Some(hotel)
          /\ Len(load_hotels(create_hotel(Disk, hotel, "written").disk).items) = 2
    /\ Len(PersistedReservations) = 2
    /\ PersistedReservations[1] # PersistedReservations[2]
    /\ \E reservation \in ReservationArgs :
          /\ reservation \notin {PersistedReservations[1], PersistedReservations[2]}
          /\ Len(load_list(save_list(MissingFile,
                                     Append(PersistedReservations, reservation),
                                     "written").file, "reservation").items) = 3

(* The outcomes of every call a caller can make on the documents Disk. *)
CallOutcomes ==
    {create_hotel(Disk, hotel, "written") : hotel \in HotelArgs}
    \cup {delete_hotel(Disk, hotel_id, "written") : hotel_id \in HotelIds}
    \cup {display_hotel(Disk, hotel_id) : hotel_id \in HotelIds}
    \cup {modify_hotel(Disk, hotel_id, None, None, total_rooms, "written") :
             hotel_id \in HotelIds, total_rooms \in Opt(RoomArgs)}
    \cup {create_customer(Disk, customer, "written") : customer \in CustomerArgs}
    \cup {delete_customer(Disk, customer_id, "written") : customer_id \in CustomerIds}
    \cup {display_customer(Disk, customer_id) : customer_id \in CustomerIds}
    \cup {modify_customer(Disk, customer_id, None, None, "written") :
             customer_id \in CustomerIds}
    \cup UNION {{create_reservation(Disk, hotel_id, customer_id, dates[1], dates[2], rooms,
                                    reservation_id, uuid, "written") :
                    uuid \in UuidPool, hotel_id \in HotelIds,
                    customer_id \in CustomerIds, dates \in DateArgs} :
                 rooms \in RoomArgs, reservation_id \in Opt(SuppliedIds)}
    \cup {cancel_reservation(Disk, reservation_id, "written") :
             reservation_id \in ReservationIds}

(* The calls that were rejected: they raised one of the two exceptions    *)
(* services.py defines.                                                   *)
Rejected == {o \in CallOutcomes : o.exc \in {"NotFoundError", "ValidationError"}}

(* The cause of a rejection: the raise statement that was reached, which  *)
(* FailureKind reads off the message.                                     *)
Cause(o) == FailureKind(o)

(***************************************************************************)
(* C23: every rejected call fails with exactly one failure kind, and the   *)
(* kind identifies the cause: two rejections with different causes (an id  *)
(* already present, an absent id, a structural invariant violated, a       *)
(* delete blocked by references, not enough capacity) differ in the kind   *)
(* of failure raised, the exception class a caller catches.                *)
(***************************************************************************)
C23_KindIdentifiesCause ==
    /\ \A o \in CallOutcomes : o.exc \in {"None", "NotFoundError", "ValidationError"}
    /\ \A o, q \in Rejected : Cause(o) # Cause(q) => o.exc # q.exc

(* The collection after is the collection before with one reservation    *)
(* appended.                                                               *)
OneAppended(before, after) ==
    /\ Len(after) = Len(before) + 1
    /\ SubSeq(after, 1, Len(before)) = before

(* The collection after is the collection before without the reservations *)
(* that carry one id.                                                      *)
RemovedById(before, after) ==
    \E reservation_id \in ReservationIds :
        after = SelectSeq(before, LAMBDA r : r.reservation_id # reservation_id)

(***************************************************************************)
(* C24: in every step of every sequence of calls the reservations          *)
(* collection stays as it is, or gains one appended reservation, or loses  *)
(* the reservations of one id; a step that changes the hotels or the       *)
(* customers document leaves the reservations document as it is.  No       *)
(* field of a persisted reservation ever changes.                          *)
(***************************************************************************)
C24_ReservationsNeverMutated ==
    [][/\ \/ PersistedReservations' = PersistedReservations
          \/ OneAppended(PersistedReservations, PersistedReservations')
          \/ RemovedById(PersistedReservations, PersistedReservations')
       /\ (hotels_file' # hotels_file \/ customers_file' # customers_file)
          => reservations_file' = reservations_file]_vars

(* Two reservations are persisted on a hotel whose total_rooms is below   *)
(* what they take together: the hotel was modified after they were made,  *)
(* and they are as they were created.                                     *)
C24_Witness ==
    /\ Len(PersistedReservations) = 2
    /\ PersistedReservations[1].hotel_id = PersistedReservations[2].hotel_id
    /\ HotelExists(PersistedReservations[1].hotel_id)
    /\ PersistedReservations[1].rooms + PersistedReservations[2].rooms
          > TheHotel(PersistedReservations[1].hotel_id).total_rooms
    /\ OverlapDemand(PersistedReservations[1].hotel_id,
                     PersistedReservations[1].check_in,
                     PersistedReservations[1].check_out)
          > TheHotel(PersistedReservations[1].hotel_id).total_rooms

(* The outcome of every call, by method and arguments, on the documents   *)
(* disk.                                                                   *)
OutcomesOn(disk) ==
    <<[hotel \in HotelArgs |-> create_hotel(disk, hotel, "written")],
      [hotel_id \in HotelIds |-> delete_hotel(disk, hotel_id, "written")],
      [hotel_id \in HotelIds |-> display_hotel(disk, hotel_id)],
      [args \in HotelIds \X Opt(RoomArgs) |->
          modify_hotel(disk, args[1], None, None, args[2], "written")],
      [customer \in CustomerArgs |-> create_customer(disk, customer, "written")],
      [customer_id \in CustomerIds |-> delete_customer(disk, customer_id, "written")],
      [customer_id \in CustomerIds |-> display_customer(disk, customer_id)],
      [customer_id \in CustomerIds |->
          modify_customer(disk, customer_id, None, None, "written")],
      [args \in HotelIds \X CustomerIds \X {<<1, 2>>, <<2, 3>>, <<1, 1>>} \X RoomArgs
                \X Opt(SuppliedIds) |->
          create_reservation(disk, args[1], args[2], args[3][1], args[3][2], args[4],
                             args[5], "U2", "written")],
      [reservation_id \in ReservationIds |->
          cancel_reservation(disk, reservation_id, "written")]>>

OverlapDays == 1 .. (MaxDay + 1)

(* Every pair of dates, ordered or not, as a reservation's range. *)
AnyRange ==
    {Reservation("R1", "H1", "C1", c, d, 1) : c \in OverlapDays, d \in OverlapDays}

(***************************************************************************)
(* C26: for all dates a, b, c, d the overlap test of create_reservation on *)
(* the request [a, b) and a reservation on [c, d) is true exactly when     *)
(* a < d and c < b, and it gives the same answer with the two ranges       *)
(* exchanged.                                                              *)
(***************************************************************************)
C26_OverlapIsHalfOpenAndSymmetric ==
    \A a, b \in OverlapDays :
       \A r \in AnyRange \cup {PersistedReservations[i] : i \in DOMAIN PersistedReservations} :
          /\ overlaps(a, b, r) <=> HalfOpenOverlap(a, b, r.check_in, r.check_out)
          /\ overlaps(a, b, r)
                <=> overlaps(r.check_in, r.check_out,
                             Reservation("R1", "H1", "C1", a, b, 1))

(* A reservation on [2, 3) is persisted: the request [1, 3) overlaps it   *)
(* although it starts before it, the adjacent request [1, 2) does not.    *)
C26_Witness ==
    \E i \in DOMAIN PersistedReservations :
        /\ PersistedReservations[i].check_in = 2
        /\ PersistedReservations[i].check_out = 3
        /\ overlaps(1, 3, PersistedReservations[i])
        /\ ~overlaps(1, 2, PersistedReservations[i])
        /\ overlaps(2, 3, Reservation("R1", "H1", "C1", 1, 3, 1))

(* An entity no call of the service creates on the documents as they are: *)
(* a hotel without rooms, a reservation whose hotel or customer does not  *)
(* resolve, whose check_out is not after its check_in, or without rooms.  *)
NeverCreated(item_name, entity) ==
    IF item_name = "hotel" THEN entity.total_rooms <= 0
    ELSE IF item_name = "customer" THEN FALSE
    ELSE \/ ~HotelExists(entity.hotel_id)
         \/ ~CustomerExists(entity.customer_id)
         \/ entity.check_out <= entity.check_in
         \/ entity.rooms <= 0

(* The create call that would make the entity is rejected. *)
CreateRejected(item_name, entity) ==
    IF item_name = "hotel" THEN create_hotel(Disk, entity, "written").exc = "ValidationError"
    ELSE create_reservation(Disk, entity.hotel_id, entity.customer_id, entity.check_in,
                            entity.check_out, entity.rooms, Some(entity.reservation_id),
                            "U1", "written").exc \in {"NotFoundError", "ValidationError"}

(***************************************************************************)
(* C27: load does no cross-entity or business validation.  An entry of a   *)
(* document that decodes to a hotel with total_rooms <= 0, or to a         *)
(* reservation whose hotel_id or customer_id does not resolve or whose     *)
(* check_out is not after its check_in, is loaded as an entity and no      *)
(* diagnostic names it, whenever load_list returns; the service rejects    *)
(* the call that would create it.                                          *)
(***************************************************************************)
C27_LoadAcceptsWhatServiceRejects ==
    \A store \in Stores :
       store[1].kind = "list"
       => \A i \in DOMAIN store[1].items :
             (/\ DecodesAt(store[1].items, store[2], i)
              /\ NeverCreated(store[2], item_loader(store[2], store[1].items[i].d).value[1])
              /\ load_list(store[1], store[2]).exc = "None")
             => /\ \E k \in DOMAIN load_list(store[1], store[2]).items :
                      load_list(store[1], store[2]).items[k]
                         = item_loader(store[2], store[1].items[i].d).value[1]
                /\ \A k \in DOMAIN load_list(store[1], store[2]).diagnostics :
                      load_list(store[1], store[2]).diagnostics[k] # IntText(i - 1)
                /\ CreateRejected(store[2],
                                  item_loader(store[2], store[1].items[i].d).value[1])

(* The documents hold a hotel without rooms and a reservation with        *)
(* reversed dates whose customer is not there; both are loaded and        *)
(* nothing is printed.                                                    *)
C27_Witness ==
    /\ load_hotels(Disk) = Loaded(<<Hotel("H1", "n1", "k1", 0)>>, <<>>)
    /\ load_reservations(Disk) = Loaded(<<Reservation("R1", "H1", "C1", 3, 2, 1)>>, <<>>)
    /\ ~CustomerExists("C1")
    /\ create_hotel(Disk, Hotel("H2", "n1", "k1", 0), "written").msg = "total_rooms must be > 0"

(***************************************************************************)
(* C28: a call that fails with NotFoundError or ValidationError has made   *)
(* no save: every raise precedes the first write of the call, so the three *)
(* documents are as they were before it.                                   *)
(***************************************************************************)
C28_RejectedCallsWriteNothing ==
    /\ \A o \in Rejected : o.disk = Disk
    /\ \A instance \in Callers :
          (/\ inflight[instance].pc = "raised"
           /\ inflight[instance].exc \in {"NotFoundError", "ValidationError"})
          => inflight[instance].pending = <<>>

(* The outcome o of a call on the documents Disk left every document but  *)
(* the one named own as it was.                                            *)
WritesOnly(o, own) ==
    /\ own # "hotels" => o.disk.hotels = Disk.hotels
    /\ own # "customers" => o.disk.customers = Disk.customers
    /\ own # "reservations" => o.disk.reservations = Disk.reservations

NightDemand(hotel_id, d) ==
    SumRooms(PersistedReservations,
             {i \in DOMAIN PersistedReservations :
                 /\ PersistedReservations[i].hotel_id = hotel_id
                 /\ PersistedReservations[i].check_in <= d
                 /\ d < PersistedReservations[i].check_out})

(***************************************************************************)
(* C30: in every state reached from empty collections by create_hotel,     *)
(* create_customer, create_reservation (no supplied id repeated) and       *)
(* cancel_reservation, for every hotel and every night the rooms of the    *)
(* hotel's reservations that cover the night sum to at most its            *)
(* total_rooms.                                                            *)
(***************************************************************************)
C30_NightlyOccupancyWithinCapacity ==
    \A i \in DOMAIN PersistedHotels : \A d \in Days :
        NightDemand(PersistedHotels[i].hotel_id, d) <= PersistedHotels[i].total_rooms

(* Two reservations cover the same night of a hotel and fill it, and no   *)
(* further room can be reserved for that night.                           *)
C30_Witness ==
    \E d \in Days, customer_id \in CustomerIds :
        /\ Len(PersistedReservations) = 2
        /\ PersistedReservations[1].hotel_id = PersistedReservations[2].hotel_id
        /\ PersistedReservations[1].check_in # PersistedReservations[2].check_in
        /\ HotelExists(PersistedReservations[1].hotel_id)
        /\ NightDemand(PersistedReservations[1].hotel_id, d)
              = TheHotel(PersistedReservations[1].hotel_id).total_rooms
        /\ PersistedReservations[1].rooms + PersistedReservations[2].rooms
              = TheHotel(PersistedReservations[1].hotel_id).total_rooms
        /\ create_reservation(Disk, PersistedReservations[1].hotel_id, customer_id,
                              d, d + 1, 1, None, "U2", "written").msg
              = "Not enough rooms available"

(* The entities of the sequence xs. *)
Entities(xs) == {xs[i] : i \in DOMAIN xs}

(* This step is the save of caller's call, which returns. *)
SavesAndReturns(caller) ==
    /\ inflight[caller].pc \in {"save_hotels", "save"}
    /\ inflight'[caller].pc = "returned"

(* The call of earlier has saved and returned, the call of later is about *)
(* to save on the same collection a different entity, and it loaded the   *)
(* collection without the entity of earlier: it loaded before earlier     *)
(* saved.                                                                  *)
LoadedBeforeSaved(earlier, later) ==
    /\ earlier # later
    /\ inflight[earlier].pc = "returned"
    /\ inflight[later].pc \in {"save_hotels", "save"}
    /\ creates_hotel(inflight[earlier]) = creates_hotel(inflight[later])
    /\ Requested(earlier) # Requested(later)
    /\ Requested(earlier) \notin Entities(inflight[later].loaded)

(* The persisted collection the call writes. *)
CollectionOf(call) ==
    IF creates_hotel(call) THEN PersistedHotels ELSE PersistedReservations

(***************************************************************************)
(* C31: when two creating calls on the same collection (two create_hotel   *)
(* or two create_reservation) both load before either saves, both return   *)
(* normally, and after the later save the persisted collection is what the *)
(* later saver loaded plus its own entity: the earlier saver's entity is   *)
(* absent.                                                                 *)
(***************************************************************************)
C31_LaterSaveDropsEarlier ==
    [][\A earlier, later \in Callers :
          (LoadedBeforeSaved(earlier, later) /\ SavesAndReturns(later))
          => /\ inflight'[earlier].pc = "returned" /\ inflight'[earlier].exc = "None"
             /\ inflight'[later].exc = "None"
             /\ CollectionOf(inflight[later])'
                   = Append(inflight[later].loaded, Requested(later))
             /\ Requested(earlier) \notin Entities(CollectionOf(inflight[later])')]_vars

(* Two create_hotel calls of different hotels have returned, neither had  *)
(* loaded the hotel of the other, and the persisted hotels hold one of    *)
(* the two hotels only.                                                    *)
C31_Witness ==
    \E earlier, later \in Callers :
        /\ earlier # later
        /\ inflight[earlier].pc = "returned" /\ inflight[later].pc = "returned"
        /\ inflight[earlier].request # <<>> /\ inflight[later].request # <<>>
        /\ creates_hotel(inflight[earlier]) /\ creates_hotel(inflight[later])
        /\ Requested(earlier) # Requested(later)
        /\ Requested(earlier) \notin Entities(inflight[later].loaded)
        /\ Requested(later) \notin Entities(inflight[earlier].loaded)
        /\ PersistedHotels = Append(inflight[later].loaded, Requested(later))
        /\ Requested(earlier) \notin Entities(PersistedHotels)

(* The call deletes from the collection keyed by id_field. *)
deletes(call, id_field) == call.request # <<>> /\ DOMAIN call.request[1] = {id_field}

(* The call creates a reservation. *)
books(call) == call.request # <<>> /\ "reservation_id" \in DOMAIN call.request[1]

(* The entities of its hotels (customers) the call loaded at its start. *)
LoadedAtStart(call, id_field) ==
    IF id_field = "hotel_id" THEN call.hotels[1].items ELSE call.customers[1].items

(* The id is the id of a persisted hotel (customer). *)
Resolves(id_field, id) ==
    IF id_field = "hotel_id" THEN HotelExists(id) ELSE CustomerExists(id)

(* deleter is in a delete of the entity that booker's create_reservation  *)
(* is for, and booker loaded that entity at its start.                    *)
DeletesWhatIsBooked(deleter, booker, id_field) ==
    /\ deleter # booker
    /\ deletes(inflight[deleter], id_field) /\ books(inflight[booker])
    /\ Requested(booker)[id_field] = Requested(deleter)[id_field]
    /\ inflight[booker].hotels # <<>>
    /\ id_field = "customer_id" => inflight[booker].customers # <<>>
    /\ first_with_id(LoadedAtStart(inflight[booker], id_field), id_field,
                     Requested(deleter)[id_field]) # None

(* The request of booker fits the lists it loaded at its start and the    *)
(* persisted reservations: its hotel and its customer are in the lists    *)
(* and the hotel has the rooms.                                            *)
FitsWhatItLoaded(booker) ==
    /\ first_with_id(inflight[booker].hotels[1].items, "hotel_id",
                     Requested(booker).hotel_id) # None
    /\ first_with_id(inflight[booker].customers[1].items, "customer_id",
                     Requested(booker).customer_id) # None
    /\ Requested(booker).rooms
          + OverlapDemand(Requested(booker).hotel_id, Requested(booker).check_in,
                          Requested(booker).check_out)
          <= first_with_id(inflight[booker].hotels[1].items, "hotel_id",
                           Requested(booker).hotel_id)[1].total_rooms

(***************************************************************************)
(* C32: referential integrity is not protected against interleaving.       *)
(* When delete_hotel (delete_customer) loads the reservations before a     *)
(* concurrent create_reservation for that hotel (customer) saves, the      *)
(* delete passes its reference check; when the create_reservation loaded   *)
(* the hotels (customers) before the delete saves, it passes its lookups   *)
(* even after the delete has saved; and when both have happened, both      *)
(* calls return and the persisted reservations hold a reservation whose    *)
(* hotel_id (customer_id) is the id of no persisted hotel (customer).      *)
(***************************************************************************)
C32_DeleteRacesCreateReservation ==
    \A deleter, booker \in Callers, id_field \in {"hotel_id", "customer_id"} :
        DeletesWhatIsBooked(deleter, booker, id_field)
        => /\ (/\ inflight[deleter].pc \in {"check_hotel_references",
                                             "check_customer_references"}
               /\ inflight[booker].pc \in {"load_customers", "load_reservations", "save"}
               /\ first_with_id(PersistedReservations, id_field,
                                Requested(deleter)[id_field]) = None)
              => references_checked(inflight[deleter], id_field,
                                    load_reservations(Disk)).pc
                    \in {"save_hotels", "save_customers"}
           /\ (/\ inflight[deleter].pc \in {"save_hotels", "save_customers", "returned"}
               /\ inflight[booker].pc = "load_reservations"
               /\ FitsWhatItLoaded(booker))
              => Checked(inflight[booker], load_reservations(Disk),
                         resolve(Disk, inflight[booker].hotels[1],
                                 inflight[booker].customers[1], load_reservations(Disk),
                                 Requested(booker).hotel_id,
                                 Requested(booker).customer_id, Requested(booker),
                                 "written")).pc = "save"
           /\ (/\ inflight[deleter].pc = "returned" /\ inflight[booker].pc = "returned"
               /\ Requested(booker) \notin Entities(inflight[deleter].loaded))
              => /\ inflight[deleter].exc = "None" /\ inflight[booker].exc = "None"
                 /\ Requested(booker) \in Entities(PersistedReservations)
                 /\ ~Resolves(id_field, Requested(booker)[id_field])

(* A delete_hotel and a create_reservation for that hotel have both       *)
(* returned, the delete had loaded the reservations without the new one   *)
(* and the create had loaded the hotel: the reservation is persisted and  *)
(* its hotel is not.                                                       *)
C32_Witness ==
    \E deleter, booker \in Callers :
        /\ DeletesWhatIsBooked(deleter, booker, "hotel_id")
        /\ inflight[deleter].pc = "returned" /\ inflight[booker].pc = "returned"
        /\ Requested(booker) \notin Entities(inflight[deleter].loaded)
        /\ Requested(booker) \in Entities(PersistedReservations)
        /\ ~HotelExists(Requested(booker).hotel_id)
        /\ CustomerExists(Requested(booker).customer_id)

(* The entities of the document that decode, in their order: none when    *)
(* the document is no list.                                                *)
Decodable(file, item_name) ==
    IF file.kind = "list" THEN ValidElements(file.items, item_name) ELSE <<>>

(* The document holding exactly the entities xs, encoded, in their order. *)
DocumentOf(xs) == ListFile([i \in DOMAIN xs |-> JDict(to_dict(xs[i]))])

(* The document failed to load as a whole and load_list returned []. *)
WholeDocumentFailed(file) == file.kind \in {"unreadable", "invalid_json", "not_a_list"}

(* The sequence xs without its items whose field id_field is id. *)
WithoutId(xs, id_field, id) == SelectSeq(xs, LAMBDA x : x[id_field] # id)

(***************************************************************************)
(* C33: records skipped by a load are discarded by the next successful     *)
(* mutation of their collection.  After a create, modify, delete or cancel *)
(* that succeeds, the persisted document holds exactly the entities of the *)
(* prior document that decoded, with the operation's change; and when the  *)
(* whole document failed to load (invalid JSON, not a list, unreadable), a *)
(* create that succeeds leaves a document holding the new entity only.     *)
(***************************************************************************)
C33_MutationDiscardsSkipped ==
    /\ \A hotel \in HotelArgs :
          LET o == create_hotel(Disk, hotel, "written")
          IN o.exc = "None"
             => /\ o.disk.hotels = DocumentOf(Append(Decodable(hotels_file, "hotel"), hotel))
                /\ WholeDocumentFailed(hotels_file) => o.disk.hotels = DocumentOf(<<hotel>>)
    /\ \A hotel_id \in HotelIds :
          LET o == delete_hotel(Disk, hotel_id, "written")
          IN o.exc = "None"
             => o.disk.hotels
                   = DocumentOf(WithoutId(Decodable(hotels_file, "hotel"), "hotel_id",
                                          hotel_id))
    /\ \A hotel_id \in HotelIds, name \in Opt(ModifyNames), total_rooms \in Opt(RoomArgs) :
          LET o == modify_hotel(Disk, hotel_id, name, None, total_rooms, "written")
              before == Decodable(hotels_file, "hotel")
          IN o.exc = "None"
             => o.disk.hotels
                   = DocumentOf([i \in DOMAIN before |->
                                    IF before[i].hotel_id # hotel_id THEN before[i]
                                    ELSE updated_hotel(before[i], name, None, total_rooms)])
    /\ \A customer \in CustomerArgs :
          LET o == create_customer(Disk, customer, "written")
          IN o.exc = "None"
             => /\ o.disk.customers
                      = DocumentOf(Append(Decodable(customers_file, "customer"), customer))
                /\ WholeDocumentFailed(customers_file)
                   => o.disk.customers = DocumentOf(<<customer>>)
    /\ \A customer_id \in CustomerIds :
          LET o == delete_customer(Disk, customer_id, "written")
          IN o.exc = "None"
             => o.disk.customers
                   = DocumentOf(WithoutId(Decodable(customers_file, "customer"),
                                          "customer_id", customer_id))
    /\ \A customer_id \in CustomerIds, full_name \in Opt(ModifyFullNames) :
          LET o == modify_customer(Disk, customer_id, full_name, None, "written")
              before == Decodable(customers_file, "customer")
          IN o.exc = "None"
             => o.disk.customers
                   = DocumentOf([i \in DOMAIN before |->
                                    IF before[i].customer_id # customer_id THEN before[i]
                                    ELSE updated_customer(before[i], full_name, None)])
    /\ \A hotel_id \in HotelIds, customer_id \in CustomerIds, dates \in DateArgs,
          rooms \in RoomArgs, reservation_id \in SuppliedIds :
          LET o == create_reservation(Disk, hotel_id, customer_id, dates[1], dates[2],
                                      rooms, Some(reservation_id), "unused", "written")
          IN o.exc = "None"
             => /\ o.disk.reservations
                      = DocumentOf(Append(Decodable(reservations_file, "reservation"),
                                          Reservation(reservation_id, hotel_id,
                                                      customer_id, dates[1], dates[2],
                                                      rooms)))
                /\ WholeDocumentFailed(reservations_file)
                   => Len(o.disk.reservations.items) = 1
    /\ \A reservation_id \in ReservationIds :
          LET o == cancel_reservation(Disk, reservation_id, "written")
          IN o.exc = "None"
             => o.disk.reservations
                   = DocumentOf(WithoutId(Decodable(reservations_file, "reservation"),
                                          "reservation_id", reservation_id))

(* The hotels document is a list of three entries whose second is no dict *)
(* and is skipped by the load; a create_hotel succeeds and leaves three   *)
(* hotels, and a delete_hotel succeeds and leaves none.                   *)
C33_Witness ==
    /\ hotels_file.kind = "list" /\ Len(hotels_file.items) = 3
    /\ hotels_file.items[2].t # "dict"
    /\ Len(Decodable(hotels_file, "hotel")) = 2
    /\ \E hotel \in HotelArgs :
          /\ create_hotel(Disk, hotel, "written").exc = "None"
          /\ Len(create_hotel(Disk, hotel, "written").disk.hotels.items) = 3
    /\ \E hotel_id \in HotelIds :
          /\ delete_hotel(Disk, hotel_id, "written").exc = "None"
          /\ Len(delete_hotel(Disk, hotel_id, "written").disk.hotels.items) = 0

(* The three persisted collections of the documents disk. *)
Collections(disk) ==
    <<load_hotels(disk).items, load_customers(disk).items, load_reservations(disk).items>>

(* failed is the outcome of a call whose save raised OSError, saved its   *)
(* outcome with the write succeeding: when the call gets as far as its    *)
(* save, it returns ret without an exception and the persisted            *)
(* collections are what they were before the call.                        *)
ReturnsUnsaved(saved, failed, ret) ==
    saved.exc = "None"
    => /\ failed.exc = "None" /\ failed.ret = ret
       /\ Collections(failed.disk) = Collections(Disk)

(* The saves of the calls by the outcomes failing: no call of the claim   *)
(* has its save fail in another way.                                       *)
FailedSavesLeaveCollections(failing) ==
    \A io \in failing :
       /\ \A hotel \in HotelArgs :
             /\ ReturnsUnsaved(create_hotel(Disk, hotel, "written"),
                               create_hotel(Disk, hotel, io), None)
             /\ create_hotel(Disk, hotel, "written").exc = "None"
                => display_hotel(create_hotel(Disk, hotel, io).disk,
                                 hotel.hotel_id).exc = "NotFoundError"
       /\ \A customer \in CustomerArgs :
             /\ ReturnsUnsaved(create_customer(Disk, customer, "written"),
                               create_customer(Disk, customer, io), None)
             /\ create_customer(Disk, customer, "written").exc = "None"
                => display_customer(create_customer(Disk, customer, io).disk,
                                    customer.customer_id).exc = "NotFoundError"
       /\ \A hotel_id \in HotelIds :
             /\ ReturnsUnsaved(delete_hotel(Disk, hotel_id, "written"),
                               delete_hotel(Disk, hotel_id, io), None)
             /\ \A total_rooms \in Opt(RoomArgs) :
                   ReturnsUnsaved(
                       modify_hotel(Disk, hotel_id, None, None, total_rooms, "written"),
                       modify_hotel(Disk, hotel_id, None, None, total_rooms, io),
                       display_hotel(Disk, hotel_id).ret)
       /\ \A customer_id \in CustomerIds :
             /\ ReturnsUnsaved(delete_customer(Disk, customer_id, "written"),
                               delete_customer(Disk, customer_id, io), None)
             /\ \A email \in Opt(ModifyEmails) :
                   ReturnsUnsaved(
                       modify_customer(Disk, customer_id, None, email, "written"),
                       modify_customer(Disk, customer_id, None, email, io),
                       display_customer(Disk, customer_id).ret)
       /\ \A hotel_id \in HotelIds, customer_id \in CustomerIds, dates \in DateArgs,
             rooms \in RoomArgs, uuid \in UuidDraw(Disk, None) :
             /\ ReturnsUnsaved(
                    create_reservation(Disk, hotel_id, customer_id, dates[1], dates[2],
                                       rooms, None, uuid, "written"),
                    create_reservation(Disk, hotel_id, customer_id, dates[1], dates[2],
                                       rooms, None, uuid, io),
                    Some(Reservation(uuid, hotel_id, customer_id, dates[1], dates[2],
                                     rooms)))
             /\ create_reservation(Disk, hotel_id, customer_id, dates[1], dates[2],
                                   rooms, None, uuid, "written").exc = "None"
                => cancel_reservation(
                       create_reservation(Disk, hotel_id, customer_id, dates[1],
                                          dates[2], rooms, None, uuid, io).disk,
                       uuid, "written").exc = "NotFoundError"
       /\ \A reservation_id \in ReservationIds :
             ReturnsUnsaved(cancel_reservation(Disk, reservation_id, "written"),
                            cancel_reservation(Disk, reservation_id, io), None)

PositionsOf(xs, id_field, id) == {i \in DOMAIN xs : xs[i][id_field] = id}

(* Several items of xs carry id. *)
Repeated(xs, id_field, id) == Cardinality(PositionsOf(xs, id_field, id)) > 1

(* The first and the last item of xs carrying id, in document order. *)
FirstOf(xs, id_field, id) ==
    xs[CHOOSE i \in PositionsOf(xs, id_field, id) :
          \A j \in PositionsOf(xs, id_field, id) : i <= j]

LastOf(xs, id_field, id) ==
    xs[CHOOSE i \in PositionsOf(xs, id_field, id) :
          \A j \in PositionsOf(xs, id_field, id) : j <= i]

(***************************************************************************)
(* C35: the operations act on every entity carrying the target id.  On a   *)
(* collection holding several entities with one id, a cancel_reservation,  *)
(* delete_hotel or delete_customer that succeeds leaves none of them and   *)
(* every other entity in place; a modify_hotel or modify_customer that     *)
(* succeeds rewrites each of them; display_hotel and display_customer      *)
(* return the first of them in document order; and create_reservation,     *)
(* given valid rooms and dates and a customer that exists, refuses for     *)
(* lack of rooms exactly when rooms exceeds the total_rooms of the last    *)
(* hotel with the id, in document order, minus the overlapping demand.     *)
(***************************************************************************)
C35_OperationsActOnEveryEntityWithId ==
    /\ \A reservation_id \in ReservationIds :
          LET o == cancel_reservation(Disk, reservation_id, "written")
          IN o.exc = "None"
             => /\ PositionsOf(PersistedReservations, "reservation_id", reservation_id) # {}
                /\ load_reservations(o.disk).items
                      = WithoutId(PersistedReservations, "reservation_id", reservation_id)
    /\ \A hotel_id \in HotelIds :
          LET o == delete_hotel(Disk, hotel_id, "written")
          IN o.exc = "None"
             => /\ PositionsOf(PersistedHotels, "hotel_id", hotel_id) # {}
                /\ load_hotels(o.disk).items = WithoutId(PersistedHotels, "hotel_id", hotel_id)
    /\ \A customer_id \in CustomerIds :
          LET o == delete_customer(Disk, customer_id, "written")
          IN o.exc = "None"
             => /\ PositionsOf(PersistedCustomers, "customer_id", customer_id) # {}
                /\ load_customers(o.disk).items
                      = WithoutId(PersistedCustomers, "customer_id", customer_id)
    /\ \A hotel_id \in HotelIds, name \in Opt(ModifyNames), total_rooms \in Opt(RoomArgs) :
          LET o == modify_hotel(Disk, hotel_id, name, None, total_rooms, "written")
          IN o.exc = "None"
             => load_hotels(o.disk).items
                   = [i \in DOMAIN PersistedHotels |->
                         IF PersistedHotels[i].hotel_id # hotel_id THEN PersistedHotels[i]
                         ELSE updated_hotel(PersistedHotels[i], name, None, total_rooms)]
    /\ \A customer_id \in CustomerIds, full_name \in Opt(ModifyFullNames) :
          LET o == modify_customer(Disk, customer_id, full_name, None, "written")
          IN o.exc = "None"
             => load_customers(o.disk).items
                   = [i \in DOMAIN PersistedCustomers |->
                         IF PersistedCustomers[i].customer_id # customer_id
                         THEN PersistedCustomers[i]
                         ELSE updated_customer(PersistedCustomers[i], full_name, None)]
    /\ \A hotel_id \in HotelIds :
          PositionsOf(PersistedHotels, "hotel_id", hotel_id) # {}
          => display_hotel(Disk, hotel_id).ret
                = Some(FirstOf(PersistedHotels, "hotel_id", hotel_id))
    /\ \A customer_id \in CustomerIds :
          PositionsOf(PersistedCustomers, "customer_id", customer_id) # {}
          => display_customer(Disk, customer_id).ret
                = Some(FirstOf(PersistedCustomers, "customer_id", customer_id))
    /\ \A hotel_id \in HotelIds, customer_id \in CustomerIds, d \in DateArgs,
          rooms \in 1..MaxRooms :
          LET o == create_reservation(Disk, hotel_id, customer_id, d[1], d[2], rooms,
                                      Some("R1"), "unused", "written")
          IN /\ d[1] < d[2]
             /\ PositionsOf(PersistedHotels, "hotel_id", hotel_id) # {}
             /\ PositionsOf(PersistedCustomers, "customer_id", customer_id) # {}
             => (o.exc = "ValidationError" /\ o.msg = "Not enough rooms available")
                <=> rooms > LastOf(PersistedHotels, "hotel_id", hotel_id).total_rooms
                               - OverlapDemand(hotel_id, d[1], d[2])

(* Two hotels with one id and different total_rooms, the smaller first,   *)
(* two customers with one id and two reservations with one id: a          *)
(* reservation of two rooms fits the last hotel only, display_hotel        *)
(* returns the first, and cancel, delete and modify act on both.           *)
C35_Witness ==
    /\ Repeated(PersistedHotels, "hotel_id", "H1")
    /\ FirstOf(PersistedHotels, "hotel_id", "H1").total_rooms = 1
    /\ LastOf(PersistedHotels, "hotel_id", "H1").total_rooms = 2
    /\ Repeated(PersistedCustomers, "customer_id", "C1")
    /\ FirstOf(PersistedCustomers, "customer_id", "C1")
          # LastOf(PersistedCustomers, "customer_id", "C1")
    /\ Repeated(PersistedReservations, "reservation_id", "R1")
    /\ create_reservation(Disk, "H1", "C1", 2, 3, 2, Some("R1"), "unused", "written").exc
          = "None"
    /\ display_hotel(Disk, "H1").ret = Some(FirstOf(PersistedHotels, "hotel_id", "H1"))
    /\ load_reservations(cancel_reservation(Disk, "R1", "written").disk).items = <<>>
    /\ Len(load_customers(modify_customer(Disk, "C1", Some("f2"), None, "written").disk).items)
          = 2


(* The collection loads and holds no entity with id in its field id_field. *)
AbsentFrom(loaded, id_field, id) ==
    /\ loaded.exc = "None"
    /\ PositionsOf(loaded.items, id_field, id) = {}

(* A persisted reservation carries id in its field id_field. *)
ReferencedBy(id_field, id) == PositionsOf(PersistedReservations, id_field, id) # {}

(***************************************************************************)
(* C36: the existence of the target is checked before its references, and  *)
(* the duplicate id before total_rooms.  delete_hotel and delete_customer  *)
(* of an id that its collection, once loaded, does not hold raise          *)
(* NotFoundError and write nothing, also when persisted reservations carry *)
(* that id; and create_hotel of a hotel whose id is taken and whose        *)
(* total_rooms is zero or negative raises ValidationError "Hotel already   *)
(* exists", not "total_rooms must be > 0".                                 *)
(***************************************************************************)
C36_ExistenceBeforeReferences ==
    /\ \A hotel_id \in HotelIds \cup {"H9"} :
          LET o == delete_hotel(Disk, hotel_id, "written")
          IN AbsentFrom(load_hotels(Disk), "hotel_id", hotel_id)
             => /\ o.exc = "NotFoundError"
                /\ o.msg = "Hotel not found"
                /\ o.disk = Disk
    /\ \A customer_id \in CustomerIds \cup {"C9"} :
          LET o == delete_customer(Disk, customer_id, "written")
          IN AbsentFrom(load_customers(Disk), "customer_id", customer_id)
             => /\ o.exc = "NotFoundError"
                /\ o.msg = "Customer not found"
                /\ o.disk = Disk
    /\ \A hotel_id \in HotelIds, total_rooms \in {-1, 0} :
          LET o == create_hotel(Disk, Hotel(hotel_id, "n1", "k1", total_rooms), "written")
          IN PositionsOf(PersistedHotels, "hotel_id", hotel_id) # {}
             => /\ o.exc = "ValidationError"
                /\ o.msg = "Hotel already exists"
                /\ o.disk = Disk

(* Persisted reservations name hotel H2 and customer C9, neither of which *)
(* is persisted, and hotel H1 is persisted: both deletes raise            *)
(* NotFoundError, and create_hotel of H1 with no rooms is refused as a    *)
(* duplicate.                                                              *)
C36_Witness ==
    /\ AbsentFrom(load_hotels(Disk), "hotel_id", "H2")
    /\ ReferencedBy("hotel_id", "H2")
    /\ delete_hotel(Disk, "H2", "written").exc = "NotFoundError"
    /\ AbsentFrom(load_customers(Disk), "customer_id", "C9")
    /\ ReferencedBy("customer_id", "C9")
    /\ delete_customer(Disk, "C9", "written").exc = "NotFoundError"
    /\ PositionsOf(PersistedHotels, "hotel_id", "H1") # {}
    /\ create_hotel(Disk, Hotel("H1", "n1", "k1", 0), "written").msg = "Hotel already exists"
====
